---------------------------- MODULE Spec2Model ----------------------------
(***************************************************************************)
(* A model of parts of the sofa-mosn proxy:                                *)
(*   - the sofarpc keep-alive      (pkg/stream/sofarpc/keepalive.go)       *)
(*   - the load balancers          (pkg/upstream/cluster/loadbalancer.go)  *)
(*   - the x-protocol stream table (stream allocation of NewStream)        *)
(* Each part has its own specification over its own group of variables;    *)
(* the variables of the other parts keep their initial value.              *)
(***************************************************************************)
EXTENDS Integers, Sequences, FiniteSets, TLC

VARIABLES
    \* ---- keep-alive (sofaRPCKeepAlive) ----
    Threshold,      \* kp.Threshold, fixed at construction
    stop,           \* TRUE iff the channel kp.stop is closed
    timeoutCount,   \* kp.timeoutCount
    requests,       \* the keys of the map kp.requests
    timer,          \* per heartbeat id: the state of its keepAliveTimeout timer
    resp,           \* per heartbeat id: the state of its response
    sendPC,         \* position of the task inside sendKeepAlive
    nextID,         \* last stream id handed out by Codec.NewStream
    connOpen,       \* the connection of the codec is open
    lastEvent,      \* the last connection event delivered to OnEvent
    closeCalls,     \* number of kp.Codec.Close() calls, by calling place
    handled,        \* per heartbeat id: which handler took effect (ran the callbacks)
    sinceSuccess,   \* timeouts that took effect since the last success that took effect
    \* ---- load balancers ----
    lbType,         \* the types.LoadBalancerType the balancer was built for
    total,          \* len(hosts.Hosts()); the hosts are indexed 0..total-1
    weight,         \* host.Weight() per host
    health,         \* host.Health() per host
    active,         \* host.HostStats().UpstreamRequestActive.Count() per host
    choice,         \* leastActiveRequestLoadBalancer.choice
    rrIndex,        \* roundRobinLoadBalancer.rrIndex, a uint32 held as two 16-bit limbs
    currentWeight,  \* hostSmoothWeighted.currentWeight per host
    effectiveWeight,\* hostSmoothWeighted.effectiveWeight per host
    edfPC,          \* position of the caller inside EdfLoadBalancer.ChooseHost
    edfTries,       \* the loop counter i of EdfLoadBalancer.ChooseHost
    edfObs,         \* health checks made so far by the running EdfLoadBalancer.ChooseHost
    last,           \* the ChooseHost call that finished in the latest step, if one did
    lastUnweight,   \* the unweightChooseHost call made in the latest step, if one was
    picks,          \* results of the sequential calls made while the set was all healthy
    stable,         \* every host has been healthy since the balancer was built
    advanced,       \* a long run of calls has been made (RRAdvance)
    calls,          \* number of calls made on a balancer that keeps an index or weights
    rrCall,         \* per concurrent caller: its position inside roundRobin ChooseHost
    \* ---- x-protocol stream connection (client side) ----
    streamIDXprotocolCount, \* conn.streamIDXprotocolCount
    connKind,       \* which listeners the stream connection was created with
    activeStream,   \* conn.activeStream.smap: stream id -> the stream stored under it
    streamLog,      \* the phase of the role of every stream created so far
    rx,             \* position of the read task inside OnReceive, and its streamID
    taskPC,         \* per task: its position inside NewStream
    taskID,         \* per task: the streamID it holds inside NewStream
    allocated,      \* the stream ids handed out, in the order of the atomic additions
    \* ---- x-protocol stream connection: the read side ----
    wire,           \* the bytes the peer has sent that have not been read yet
    readBuf,        \* the read buffer handed to Dispatch
    requestList,    \* the frames the running Dispatch has still to process
    dpPC,           \* position of the read task inside Dispatch
    handed,         \* the frames passed to OnReceive so far
    received,       \* all bytes read from the connection so far
    connState,      \* the connection is "open" or "closed"
    \* ---- proxy: one active request ----
    pxConf,         \* the configuration: filter, route, retry policy, upstream behaviour
    pxHeaders,      \* the request headers, as the filters have left them
    pxFilter,       \* healthCheckFilter.protocol and .healthCheckReq
    pxState,        \* the state of the request in the proxy's state machine
    pxHost,         \* the upstream host chosen for the running try
    pxSent,         \* what has been written to the downstream, in order
    pxTries,        \* the hosts upstream requests have been sent to, in order
    pxRetries,      \* the retries made
    pxTimer,        \* the per-try and the overall timer
    pxEvents,       \* how often each terminal event has occurred
    downstreamCleaned, \* downStream.downstreamCleaned
    pxCleanups,     \* how often the request has been cleaned up
    pxConns,        \* the hosts an upstream connection has been made to
    pxOther,        \* ChooseHost calls other requests have made on the balancer
    pxReset,        \* the downstream connection has been closed by its peer
    \* ---- request info ----
    rfFlags,        \* the response flags set on the request info
    rfChecked,      \* isRequestFailed has been evaluated
    rfFailed,       \* its result
    \* ---- protocol auto-selection on a new connection ----
    saOrder,        \* the order in which the stream factories are consulted
    saSub,          \* the context of the connection carries a sub-protocol
    saWire,         \* the first bytes the peer sends, not read yet
    saBuf,          \* the bytes read so far
    saProt,         \* the protocol selected
    saErr,          \* the result of the latest selection
    saConn,         \* the connection is "open" or "closed"
    \* ---- feature gates (defaultFeatureGate), per gate ----
    fgLive,         \* the gates that exist: the original, and its copy once DeepCopy has run
    known,          \* f.known: feature -> FeatureSpec
    enabled,        \* f.enabled: feature -> bool
    ready,          \* f.ready: feature -> bool
    broadcasters,   \* f.broadcasters: feature -> oneTimeBroadcaster
    info,           \* f.info, held as the map it was formatted from
    fgChan,         \* the channels that have been closed
    fgInit,         \* the running StartInit: its gate and the position of its goroutines
    fgRan,          \* the (gate, feature) pairs whose InitFunc has run to its end
    fgPanic,        \* a goroutine has panicked
    fgLast,         \* the call that returned in the latest step
    fgOwn,          \* per gate: the value each feature was last set to by its own key
    \* ---- concurrent callers of the smooth weighted round-robin balancer ----
    swCall,         \* per caller: its position inside ChooseHost and its local variables
    swRets,         \* how often each result has been returned so far
    \* ---- dubbo codec, applied to one frame ----
    codecData,      \* the frame, in the buffer the codec is handed
    codecCall,      \* the latest call of the codec and its result
    \* ---- fault injector (read filter of one connection) ----
    fiConf,         \* delayPercent and delayDuration
    delaying,       \* fi.delaying
    fiPC,           \* position of the read loop inside OnData
    fiTimer,        \* position of the goroutine of the running delay
    fiDelay,        \* the number of delays started so far
    fiStopped,      \* the delays during which an OnData has returned Stop
    fiContinued,    \* the delays after which ContinueReading has been called
    fiCalls         \* the OnData calls made so far

kaVars == <<Threshold, stop, timeoutCount, requests, timer, resp, sendPC, nextID,
            connOpen, lastEvent, closeCalls, handled, sinceSuccess>>

lbVars == <<lbType, total, weight, health, active, choice, rrIndex, currentWeight,
            effectiveWeight, edfPC, edfTries, edfObs, last, lastUnweight, picks, stable,
            advanced, calls>>

rcVars == <<rrCall>>

stVars == <<streamIDXprotocolCount, connKind, activeStream, streamLog, rx, taskPC, taskID,
            allocated>>

dpVars == <<wire, readBuf, requestList, dpPC, handed, received, connState>>

pxVars == <<pxConf, pxHeaders, pxFilter, pxState, pxHost, pxSent, pxTries, pxRetries,
            pxTimer, pxEvents, downstreamCleaned, pxCleanups, pxConns, pxOther, pxReset>>

rfVars == <<rfFlags, rfChecked, rfFailed>>

saVars == <<saOrder, saSub, saWire, saBuf, saProt, saErr, saConn>>

fgVars == <<fgLive, known, enabled, ready, broadcasters, info, fgChan, fgInit, fgRan,
            fgPanic, fgLast, fgOwn>>

\* The parts described after the stream table.
extVars == <<dpVars, pxVars, rfVars, saVars>>

\* The parts outside the data path.
swVars == <<swCall, swRets>>

cdVars == <<codecData, codecCall>>

fiVars == <<fiConf, delaying, fiPC, fiTimer, fiDelay, fiStopped, fiContinued, fiCalls>>

addVars == <<fgVars, swVars, cdVars, fiVars>>

vars == <<kaVars, lbVars, rcVars, stVars, extVars, addVars>>

\* No byte has been sent or read, no Dispatch is running.
DPIdle ==
    /\ wire = <<>>
    /\ readBuf = <<>>
    /\ requestList = <<>>
    /\ dpPC = "idle"
    /\ handed = <<>>
    /\ received = <<>>
    /\ connState = "open"

\* No request is in the proxy.
PXIdle ==
    /\ pxConf = [passThrough |-> FALSE, route |-> "none", status |-> 0, body |-> "",
                 numRetries |-> 0, behave |-> <<>>]
    /\ pxHeaders = <<>>
    /\ pxFilter = [protocol |-> "", healthCheckReq |-> FALSE, healthCheck |-> FALSE,
                   status |-> "none"]
    /\ pxState = "IDLE"
    /\ pxHost = -1
    /\ pxSent = <<>>
    /\ pxTries = <<>>
    /\ pxRetries = 0
    /\ pxTimer = [perTry |-> "off", try |-> 0, global |-> "off"]
    /\ pxEvents = [written |-> 0, reset |-> 0, timeout |-> 0]
    /\ downstreamCleaned = 0
    /\ pxCleanups = 0
    /\ pxConns = {}
    /\ pxOther = 0
    /\ pxReset = FALSE

\* network.NewRequestInfo(): no response flag is set.
RFIdle ==
    /\ rfFlags = {}
    /\ rfChecked = FALSE
    /\ rfFailed = FALSE

\* No connection is waiting for its protocol.
SAIdle ==
    /\ saOrder = <<>>
    /\ saSub = FALSE
    /\ saWire = <<>>
    /\ saBuf = <<>>
    /\ saProt = ""
    /\ saErr = "none"
    /\ saConn = "open"

ExtIdle == DPIdle /\ PXIdle /\ RFIdle /\ SAIdle

Gates == {"orig", "copy"}

EmptyMap == [k \in {} |-> TRUE]

\* m[k] = v on a map
Put(m, k, v) == [x \in DOMAIN m \cup {k} |-> IF x = k THEN v ELSE m[x]]

NoGateCall == [op |-> "none", gate |-> "", key |-> "", err |-> "", stored |-> {}]

NoInit == [pc |-> "idle", gate |-> "", task |-> EmptyMap, fn |-> EmptyMap]

\* No feature gate has been built.
FGIdle ==
    /\ fgLive = {}
    /\ known = [g \in Gates |-> EmptyMap]
    /\ enabled = [g \in Gates |-> EmptyMap]
    /\ ready = [g \in Gates |-> EmptyMap]
    /\ broadcasters = [g \in Gates |-> EmptyMap]
    /\ info = [g \in Gates |-> EmptyMap]
    /\ fgChan = {}
    /\ fgInit = NoInit
    /\ fgRan = {}
    /\ fgPanic = FALSE
    /\ fgLast = NoGateCall
    /\ fgOwn = [g \in Gates |-> EmptyMap]

\* No caller is inside the ChooseHost of the smooth weighted round-robin balancer.
IdleChoose == [pc |-> "idle", idx |-> 0, totalWeight |-> 0, selected |-> -1, loaded |-> 0]

SWIdle ==
    /\ swCall = [c \in {} |-> IdleChoose]
    /\ swRets = [h \in {} |-> 0]

\* No frame is with the codec.
NoCodecCall == [op |-> "none", arg |-> <<>>, status |-> "none", ret |-> <<>>]

CDIdle ==
    /\ codecData = <<>>
    /\ codecCall = NoCodecCall

\* A fault injector that injects nothing and has seen no data.
FIIdle ==
    /\ fiConf = [delayPercent |-> 0, delayDuration |-> 0]
    /\ delaying = 0
    /\ fiPC = "idle"
    /\ fiTimer = "none"
    /\ fiDelay = 0
    /\ fiStopped = {}
    /\ fiContinued = {}
    /\ fiCalls = 0

\* The parts outside the data path other than the feature gates and the callers of the
\* smooth weighted round-robin balancer.
RestIdle == CDIdle /\ FIIdle

AddIdle == FGIdle /\ SWIdle /\ RestIdle

(***************************************************************************)
(*                               KEEP-ALIVE                                *)
(***************************************************************************)

\* The keep-alive leaves the other parts alone.
KAFrame == UNCHANGED <<lbVars, rcVars, stVars, extVars, addVars>>

\* Bounds of the keep-alive model.
MaxHeartbeats == 3
MaxThreshold == 2

HeartbeatIDs == 1..MaxHeartbeats

\* types.ConnectionEvent values.
ConnectionEvents ==
    {"RemoteClose", "LocalClose", "OnReadErrClose", "OnWriteErrClose", "OnConnect",
     "ConnectedFlag", "ConnectTimeout", "ConnectFailed", "OnReadTimeout", "OnWriteTimeout"}

IsClose(ce) ==
    ce \in {"LocalClose", "RemoteClose", "OnReadErrClose", "OnWriteErrClose", "OnWriteTimeout"}

ConnectFailure(ce) == ce \in {"ConnectFailed", "ConnectTimeout"}

\* Stop(): once.Do(close(kp.stop)). It neither touches kp.requests nor any timer.
StopEffect == stop' = TRUE

\* kp.Codec.Close() called from `place`: the connection closes and reports
\* LocalClose to its event listeners, of which keep-alive is one (OnEvent -> Stop).
CodecClose(place) ==
    /\ closeCalls' = [closeCalls EXCEPT ![place] = @ + 1]
    /\ connOpen' = FALSE
    /\ lastEvent' = IF connOpen THEN "LocalClose" ELSE lastEvent
    /\ StopEffect

\* HandleTimeout: `if kp.timeoutCount >= kp.Threshold`.
ReachedThresholdStrict(count) == count > Threshold

ReachedThreshold(count) == count >= Threshold

\* HandleSuccess: atomic.StoreUint32(&kp.timeoutCount, 0).
SuccessCountKept(count) == count

SuccessCount(count) == 0

\* HandleTimeout: `select { case <-kp.stop: return`.
HandleTimeoutNeverStopped == FALSE

HandleTimeoutStopped == stop

\* HandleSuccess: `select { case <-kp.stop: return`.
HandleSuccessStopped == stop

PendingAlways(id) == TRUE

\* HandleTimeout, HandleSuccess: `if _, ok := kp.requests[id]; ok`.
Pending(id) == id \in requests

\* NewSofaRPCKeepAlive with a threshold out of `thresholds`.
KAStart(thresholds) ==
    /\ Threshold \in thresholds
    /\ stop = FALSE
    /\ timeoutCount = 0
    /\ requests = {}
    /\ timer = [id \in HeartbeatIDs |-> "none"]
    /\ resp = [id \in HeartbeatIDs |-> "none"]
    /\ sendPC = "idle"
    /\ nextID = 0
    /\ connOpen = TRUE
    /\ lastEvent = "ConnectedFlag"
    /\ closeCalls = [p \in {"timeout", "idleFree"} |-> 0]
    /\ handled = [id \in HeartbeatIDs |-> "none"]
    /\ sinceSuccess = 0

KAInit == KAStart(0..MaxThreshold)

\* The keep-alive part while another part is looked at.
KAIdle == KAStart({0})

\* SendKeepAlive up to and including sender.AppendHeaders: the stop check, NewStream,
\* the idle-free check (its result `free` is an input) and the send of the heartbeat.
\* A call made when kp.stop is closed returns at once and changes nothing.
SendKeepAlive ==
    /\ sendPC = "idle"
    /\ ~stop
    /\ nextID < MaxHeartbeats
    /\ nextID' = nextID + 1
    /\ \E free \in BOOLEAN :
         IF free
         THEN /\ CodecClose("idleFree")
              /\ UNCHANGED <<resp, sendPC>>
         ELSE /\ resp' = [resp EXCEPT ![nextID + 1] = "sent"]
              /\ sendPC' = "sent"
              /\ UNCHANGED <<stop, connOpen, lastEvent, closeCalls>>
    /\ KAFrame
    /\ UNCHANGED <<Threshold, timeoutCount, requests, timer, handled, sinceSuccess>>

\* sendKeepAlive, the locked part: kp.requests[id] = startTimeout(id, kp).
RecordRequest ==
    /\ sendPC = "sent"
    /\ requests' = requests \cup {nextID}
    /\ timer' = [timer EXCEPT ![nextID] = "armed"]
    /\ sendPC' = "idle"
    /\ KAFrame
    /\ UNCHANGED <<Threshold, stop, timeoutCount, resp, nextID, connOpen, lastEvent,
                   closeCalls, handled, sinceSuccess>>

\* The timer of heartbeat id expires: onTimeout -> HandleTimeout(id), up to the select
\* on kp.stop.
TimerExpire(id) ==
    /\ timer[id] = "armed"
    /\ timer' = [timer EXCEPT ![id] = IF HandleTimeoutStopped THEN "done" ELSE "passed"]
    /\ KAFrame
    /\ UNCHANGED <<Threshold, stop, timeoutCount, requests, resp, sendPC, nextID,
                   connOpen, lastEvent, closeCalls, handled, sinceSuccess>>

\* HandleTimeout(id), the part under kp.mutex.
HandleTimeout(id) ==
    /\ timer[id] = "passed"
    /\ timer' = [timer EXCEPT ![id] = "done"]
    /\ IF Pending(id)
       THEN /\ requests' = requests \ {id}
            /\ timeoutCount' = timeoutCount + 1
            /\ IF ReachedThreshold(timeoutCount + 1)
               THEN CodecClose("timeout")
               ELSE UNCHANGED <<stop, connOpen, lastEvent, closeCalls>>
            /\ handled' = [handled EXCEPT ![id] = "timeout"]
            /\ sinceSuccess' = sinceSuccess + 1
       ELSE UNCHANGED <<requests, timeoutCount, stop, connOpen, lastEvent, closeCalls,
                        handled, sinceSuccess>>
    /\ KAFrame
    /\ UNCHANGED <<Threshold, resp, sendPC, nextID>>

\* The response of heartbeat id is received: OnReceive -> HandleSuccess(id), up to the
\* select on kp.stop.
OnReceive(id) ==
    /\ resp[id] = "sent"
    /\ resp' = [resp EXCEPT ![id] = IF HandleSuccessStopped THEN "done" ELSE "passed"]
    /\ KAFrame
    /\ UNCHANGED <<Threshold, stop, timeoutCount, requests, timer, sendPC, nextID,
                   connOpen, lastEvent, closeCalls, handled, sinceSuccess>>

\* HandleSuccess(id), the part under kp.mutex. timer.Stop() cancels a timer that has
\* not expired yet and does nothing to one that has.
HandleSuccess(id) ==
    /\ resp[id] = "passed"
    /\ resp' = [resp EXCEPT ![id] = "done"]
    /\ IF Pending(id)
       THEN /\ requests' = requests \ {id}
            /\ timer' = [timer EXCEPT ![id] = IF @ = "armed" THEN "cancelled" ELSE @]
            /\ timeoutCount' = SuccessCount(timeoutCount)
            /\ handled' = [handled EXCEPT ![id] = "success"]
            /\ sinceSuccess' = 0
       ELSE UNCHANGED <<requests, timer, timeoutCount, handled, sinceSuccess>>
    /\ KAFrame
    /\ UNCHANGED <<Threshold, stop, sendPC, nextID, connOpen, lastEvent, closeCalls>>

\* The connection reports an event to its listeners: OnEvent(event).
OnEvent(event) ==
    /\ connOpen
    /\ lastEvent' = event
    /\ IF IsClose(event) \/ ConnectFailure(event)
       THEN /\ connOpen' = FALSE
            /\ StopEffect
       ELSE UNCHANGED <<connOpen, stop>>
    /\ KAFrame
    /\ UNCHANGED <<Threshold, timeoutCount, requests, timer, resp, sendPC, nextID,
                   closeCalls, handled, sinceSuccess>>

\* Stop() called by the owner of the keep-alive.
Stop ==
    /\ ~stop
    /\ StopEffect
    /\ KAFrame
    /\ UNCHANGED <<Threshold, timeoutCount, requests, timer, resp, sendPC, nextID,
                   connOpen, lastEvent, closeCalls, handled, sinceSuccess>>

KANext ==
    \/ SendKeepAlive
    \/ RecordRequest
    \/ \E id \in HeartbeatIDs : TimerExpire(id)
    \/ \E id \in HeartbeatIDs : HandleTimeout(id)
    \/ \E id \in HeartbeatIDs : OnReceive(id)
    \/ \E id \in HeartbeatIDs : HandleSuccess(id)
    \/ \E event \in ConnectionEvents : OnEvent(event)
    \/ Stop

(***************************************************************************)
(*                        KEEP-ALIVE: THE CLAIMS                           *)
(***************************************************************************)

\* C1: a HandleTimeout that passed the stop check and finds its heartbeat still in
\* kp.requests removes it, increases timeoutCount by exactly one, and calls
\* Codec.Close() exactly when the increased counter is >= Threshold.
C1_TimeoutThreshold ==
    [][\A id \in HeartbeatIDs :
         (timer[id] = "passed" /\ timer'[id] = "done" /\ id \in requests)
         => /\ timeoutCount' = timeoutCount + 1
            /\ id \notin requests'
            /\ IF timeoutCount' >= Threshold
               THEN closeCalls'["timeout"] = closeCalls["timeout"] + 1 /\ ~connOpen'
               ELSE closeCalls' = closeCalls /\ connOpen' = connOpen]_vars

\* C1 witness: with Threshold 2 the first timeout left the connection alone and the
\* second one closed it.
C1_Witness ==
    /\ Threshold = 2
    /\ timeoutCount = 2
    /\ closeCalls["timeout"] = 1
    /\ closeCalls["idleFree"] = 0
    /\ lastEvent = "LocalClose"

\* C2: a HandleSuccess that passed the stop check and finds its heartbeat in
\* kp.requests removes it, leaves its timer unarmed and sets timeoutCount to 0; hence
\* timeoutCount always is the number of timeouts since the last success, and a timeout
\* closes the connection only when that number has reached Threshold.
C2_SuccessResets ==
    [][/\ \A id \in HeartbeatIDs :
            (resp[id] = "passed" /\ resp'[id] = "done" /\ id \in requests)
            => /\ timeoutCount' = 0
               /\ id \notin requests'
               /\ timer'[id] # "armed"
               /\ (timer[id] = "armed" => timer'[id] = "cancelled")
       /\ timeoutCount' = sinceSuccess'
       /\ (closeCalls'["timeout"] # closeCalls["timeout"]) => sinceSuccess' >= Threshold]_vars

\* C2 witness: Threshold 2; a timeout, then a success that cancelled its timer, then
\* a timeout again, and the connection is still open with the counter at 1.
C2_Witness ==
    /\ Threshold = 2
    /\ handled = [id \in HeartbeatIDs |-> IF id = 2 THEN "success" ELSE
                                          IF id \in {1, 3} THEN "timeout" ELSE "none"]
    /\ timer[2] = "cancelled"
    /\ timeoutCount = 1
    /\ connOpen
    /\ ~stop

\* C3 as stated: once a close or connect-failure event has been handled, keep-alive
\* is stopped and no heartbeat timer is armed.
C3_TimersCancelledOnClose ==
    ~connOpen => (stop /\ \A id \in HeartbeatIDs : timer[id] # "armed")

\* C3 amended: a close or connect-failure event marks keep-alive stopped and leaves
\* every armed timer armed; a timer that expires once keep-alive is stopped has no
\* effect: the counter, kp.requests, the connection and the callbacks are untouched.
C3_StoppedTimersInert ==
    [][/\ ~connOpen' => stop'
       /\ \A id \in HeartbeatIDs :
            /\ (connOpen /\ ~connOpen' /\ timer[id] = "armed") => timer'[id] = "armed"
            /\ (stop /\ timer[id] = "armed" /\ timer'[id] \notin {"armed", "cancelled"})
               => /\ timer'[id] = "done"
                  /\ UNCHANGED <<timeoutCount, requests, closeCalls, handled, connOpen>>]_vars

\* C3 witness: the connection reported a close, and afterwards the timer of a recorded
\* heartbeat expired without effect: the heartbeat is still in kp.requests.
C3_Witness ==
    /\ ~connOpen
    /\ stop
    /\ lastEvent = "RemoteClose"
    /\ \E id \in HeartbeatIDs :
         timer[id] = "done" /\ handled[id] = "none" /\ id \in requests
    /\ timeoutCount = 0

\* C27: a heartbeat is handled at most once: a handler takes effect only for a heartbeat
\* that no handler has taken effect for, and takes it out of kp.requests.
C27_HandledAtMostOnce ==
    [][\A id \in HeartbeatIDs :
         handled'[id] # handled[id] =>
            /\ handled[id] = "none"
            /\ id \in requests /\ id \notin requests'
            /\ \/ handled'[id] = "timeout" /\ timeoutCount' = timeoutCount + 1
               \/ handled'[id] = "success" /\ timeoutCount' = 0]_vars

\* C27 witness: the timer of a heartbeat has expired and its response has been received,
\* both handlers have run under the mutex, and the timeout alone has taken effect.
C27_Witness ==
    /\ ~stop
    /\ \E id \in HeartbeatIDs :
         /\ timer[id] = "done" /\ resp[id] = "done"
         /\ handled[id] = "timeout"
         /\ id \notin requests
    /\ timeoutCount = 1
    /\ sinceSuccess = 1

\* C28: no answered heartbeat is counted as a timeout: HandleTimeout does not take effect
\* for a heartbeat whose response has been received and handled.
C28_AnsweredNeverTimesOut ==
    [][\A id \in HeartbeatIDs :
         (handled[id] = "none" /\ handled'[id] = "timeout") => resp[id] # "done"]_vars

\* The response of a heartbeat was handled before sendKeepAlive had recorded it, and its
\* timer has then counted it as a timeout.
C28_AnsweredCounted ==
    \E id \in HeartbeatIDs :
        /\ resp[id] = "done" /\ timer[id] = "done"
        /\ handled[id] = "timeout"
        /\ timeoutCount >= 1

\* C29: once Stop has returned, keep-alive runs no callback, leaves the timeout counter
\* alone, sends no heartbeat and does not close the connection.
C29_NothingAfterStop ==
    [][stop => /\ UNCHANGED <<handled, timeoutCount, nextID, closeCalls>>
               /\ \A id \in HeartbeatIDs : resp[id] = "none" => resp'[id] = "none"]_vars

\* A handler that had passed its stop check has taken effect after Stop.
C29_EffectAfterStop ==
    /\ stop
    /\ connOpen
    /\ closeCalls = [p \in {"timeout", "idleFree"} |-> 0]
    /\ \E id \in HeartbeatIDs : handled[id] # "none" /\ timer[id] # "armed"

(***************************************************************************)
(*                             LOAD BALANCERS                              *)
(***************************************************************************)

\* The load balancers leave the other parts alone.
LBFrame == UNCHANGED <<kaVars, rcVars, stVars, extVars, addVars>>

\* Bounds of the load-balancer model.
MaxHosts == 3
MaxWeight == 3
MaxActive == 1
MaxChoice == 2
MaxPicks == 20
MaxCalls == 3

\* The least-active-request balancer is looked at on host sets of up to MaxEdfHosts.
MaxEdfHosts == 2

\* `return nil`: no host.
NoHost == -1

\* One 16-bit limb of a uint32.
Limb == 65536

\* const default_choice = 2
default_choice == 2

LBTypes == {"RoundRobin", "Random", "WeightedRoundRobin", "LeastActiveRequest"}

Hosts == 0..(total - 1)

\* uint32 arithmetic on [hi, lo], value hi * 2^16 + lo.
U32(hi, lo) == [hi |-> hi, lo |-> lo]

U32Add(x, y) ==
    LET lo == x.lo + y.lo
        hi == x.hi + y.hi + (lo \div Limb)
    IN  U32(hi % Limb, lo % Limb)

\* atomic.AddUint32(&lb.rrIndex, 1)
AddUint32Kept(x) == x

AddUint32One(x) == U32Add(x, U32(0, 1))

\* x % uint32(n)
U32Mod(x, n) == (((x.hi % n) * (Limb % n)) + (x.lo % n)) % n

\* host.Health()
Health(h) == health[h]

\* hostWeightsAreEqual(hosts)
hostWeightsAreEqual ==
    IF total <= 1 THEN TRUE ELSE \A i \in 1..(total - 1) : weight[i] = weight[0]

\* The weight vectors tried for the least-active-request balancer: its ChooseHost
\* depends on the weights only through hostWeightsAreEqual.
EdfWeights ==
    {[h \in Hosts |-> 1], [h \in Hosts |-> IF h = 0 THEN MaxWeight ELSE 1]}

NoCall == [status |-> "none", ret |-> NoHost, obs |-> {}, tries |-> 0, fallback |-> FALSE]

NoUnweight ==
    [called |-> FALSE, draws |-> 0, distinct |-> TRUE, ret |-> NoHost, drawn |-> FALSE,
     retCount |-> 0, minCount |-> 0]

\* A balancer of one of `types` built by its factory on a host set of one of `sizes`.
LBStart(types, sizes) ==
    /\ lbType \in types
    /\ total \in IF lbType = "LeastActiveRequest" THEN sizes \cap (0..MaxEdfHosts) ELSE sizes
    /\ weight \in CASE lbType = "WeightedRoundRobin" -> [Hosts -> 1..MaxWeight]
                    [] lbType = "LeastActiveRequest" -> EdfWeights
                    [] OTHER -> {[h \in Hosts |-> 1]}
    /\ health \in [Hosts -> BOOLEAN]
    /\ active \in IF lbType = "LeastActiveRequest"
                  THEN [Hosts -> 0..MaxActive] ELSE {[h \in Hosts |-> 0]}
    \* newleastActiveRequestLoadBalancer: the configured ChoiceCount, or default_choice
    /\ choice \in IF lbType = "LeastActiveRequest"
                  THEN (0..MaxChoice) \cup {default_choice} ELSE {default_choice}
    \* newRoundRobinLoadBalancer: idx = f.rand.Uint32() % len(hostsList)
    /\ rrIndex \in IF lbType \in {"RoundRobin", "Random"} /\ total # 0
                   THEN {U32(0, i) : i \in Hosts} ELSE {U32(0, 0)}
    \* newSmoothWeightedRRLoadBalancer
    /\ currentWeight = [h \in Hosts |-> 0]
    /\ effectiveWeight = weight
    /\ edfPC = "idle"
    /\ edfTries = 0
    /\ edfObs = {}
    /\ last = NoCall
    /\ lastUnweight = NoUnweight
    /\ picks = <<>>
    /\ stable = \A h \in Hosts : health[h]
    /\ advanced = FALSE
    /\ calls = 0

LBInit == LBStart(LBTypes, 0..MaxHosts)

\* The load-balancer part while another part is looked at.
LBIdle == LBStart({"RoundRobin"}, {0})

\* A call may start: the model stops after MaxPicks calls of a round-robin balancer on a
\* set that has been all healthy (the calls recorded in picks), and after MaxCalls calls
\* of a balancer that keeps an index or weights otherwise.
Recording == stable /\ lbType \in {"RoundRobin", "WeightedRoundRobin"}

\* The least-active-request balancer keeps no state between calls: its calls need no
\* bound.
Counted == lbType # "LeastActiveRequest"

MayCall ==
    /\ edfPC = "idle"
    /\ IF Recording THEN Len(picks) < MaxPicks ELSE (Counted => calls < MaxCalls)

\* What a finished call leaves behind.
Finish(ret, obs, tries, fallback, status) ==
    /\ last' = [status |-> status, ret |-> ret, obs |-> obs, tries |-> tries,
                fallback |-> fallback]
    /\ picks' = IF Recording THEN Append(picks, ret) ELSE <<>>
    /\ calls' = IF Counted THEN calls + 1 ELSE calls

\* ---- roundRobinLoadBalancer.ChooseHost ----

\* The loop of ChooseHost from try i on, with the index at idx: the new index, the
\* host returned and the health checks made.
RECURSIVE RRLoop(_, _)
RRLoop(idx, i) ==
    IF i >= total
    THEN [idx |-> idx, ret |-> NoHost, obs |-> {}]
    ELSE LET nidx == AddUint32One(idx)
             index == U32Mod(nidx, total)
         IN  IF Health(index)
             THEN [idx |-> nidx, ret |-> index, obs |-> {<<index, TRUE>>}]
             ELSE LET r == RRLoop(nidx, i + 1)
                  IN  [r EXCEPT !.obs = @ \cup {<<index, FALSE>>}]

RRResult == IF total = 0 THEN [idx |-> rrIndex, ret |-> NoHost, obs |-> {}]
            ELSE RRLoop(rrIndex, 0)

RRChooseHost ==
    /\ lbType = "RoundRobin"
    /\ MayCall
    /\ LET r == RRResult
       IN  /\ rrIndex' = r.idx
           /\ Finish(r.ret, r.obs, Cardinality(r.obs), FALSE, "returned")
    /\ UNCHANGED <<lbType, total, weight, health, active, choice, currentWeight,
                   effectiveWeight, edfPC, edfTries, edfObs, lastUnweight, stable, advanced>>
    /\ LBFrame

\* A run of 2^32 - (MaxHosts + 2) sequential ChooseHost calls on a host set that is
\* all healthy: each call adds one to rrIndex and returns on its first try.
AdvanceRun == U32(Limb - 1, Limb - (MaxHosts + 2))

RRAdvance ==
    /\ lbType = "RoundRobin"
    /\ MayCall
    /\ total # 0
    /\ stable
    /\ ~advanced
    /\ advanced' = TRUE
    /\ rrIndex' = U32Add(rrIndex, AdvanceRun)
    /\ picks' = <<>>
    /\ last' = NoCall
    /\ UNCHANGED <<lbType, total, weight, health, active, choice, currentWeight,
                   effectiveWeight, edfPC, edfTries, edfObs, lastUnweight, stable,
                   calls>>
    /\ LBFrame

\* ---- randomLoadBalancer.ChooseHost ----

\* `if host.Health() { return host }`
RandomPickAlways(idx) == TRUE

RandomPickOK(idx) == Health(idx)

RandomChooseHost ==
    /\ lbType = "Random"
    /\ MayCall
    /\ IF total = 0
       THEN /\ Finish(NoHost, {}, 0, FALSE, "returned")
            /\ UNCHANGED rrIndex
       ELSE \E idx \in Hosts :
              IF RandomPickOK(idx)
              THEN /\ Finish(idx, {<<idx, Health(idx)>>}, 1, FALSE, "returned")
                   /\ UNCHANGED rrIndex
              ELSE \* degrade to rr lb
                   LET r == RRResult
                   IN  /\ rrIndex' = r.idx
                       /\ Finish(r.ret, r.obs \cup {<<idx, Health(idx)>>},
                                 1 + Cardinality(r.obs), TRUE, "returned")
    /\ UNCHANGED <<lbType, total, weight, health, active, choice, currentWeight,
                   effectiveWeight, edfPC, edfTries, edfObs, lastUnweight, stable, advanced>>
    /\ LBFrame

\* ---- smoothWeightedRRLoadBalancer.ChooseHost ----

\* atomic.AddInt64(&selectedHostWeighted.currentWeight, -totalWeight)
WinnerWeightKept(cw, totalWeight) == cw

WinnerWeight(cw, totalWeight) == cw - totalWeight

\* totalWeight += atomic.LoadInt64(&hw.effectiveWeight)
AddTotalWeightSkipped(totalWeight, ew) == totalWeight

AddTotalWeight(totalWeight, ew) == totalWeight + ew

\* The loop over the hosts from idx on: the weights, the total and the host selected.
RECURSIVE SWLoop(_, _, _, _, _)
SWLoop(idx, cw, ew, totalWeight, sel) ==
    IF idx >= total
    THEN [cw |-> cw, ew |-> ew, totalWeight |-> totalWeight, sel |-> sel]
    ELSE IF ~Health(idx)
         THEN SWLoop(idx + 1, cw, ew, totalWeight, sel)
         ELSE LET cw1 == [cw EXCEPT ![idx] = @ + ew[idx]]
                  tw1 == AddTotalWeight(totalWeight, ew[idx])
                  ew1 == IF ew[idx] < weight[idx] THEN [ew EXCEPT ![idx] = @ + 1] ELSE ew
                  sel1 == IF sel = NoHost \/ cw1[idx] > cw1[sel] THEN idx ELSE sel
              IN  SWLoop(idx + 1, cw1, ew1, tw1, sel1)

SWChooseHost ==
    /\ lbType = "WeightedRoundRobin"
    /\ MayCall
    /\ LET r == SWLoop(0, currentWeight, effectiveWeight, 0, NoHost)
       IN  /\ currentWeight' =
                IF r.sel # NoHost
                THEN [r.cw EXCEPT ![r.sel] = WinnerWeight(@, r.totalWeight)]
                ELSE r.cw
           /\ effectiveWeight' = r.ew
           /\ Finish(r.sel, {<<h, Health(h)>> : h \in Hosts}, total, FALSE, "returned")
    /\ UNCHANGED <<lbType, total, weight, health, active, choice, rrIndex, edfPC,
                   edfTries, edfObs, lastUnweight, stable, advanced>>
    /\ LBFrame

\* ---- the health checker and the request counters ----

\* The health checker sets the health bit of a host to the opposite value.
SetHealth(h) ==
    /\ h \in Hosts
    /\ calls < MaxCalls
    /\ health' = [health EXCEPT ![h] = ~@]
    /\ stable' = FALSE
    /\ picks' = <<>>
    /\ last' = NoCall
    /\ lastUnweight' = NoUnweight
    /\ UNCHANGED <<lbType, total, weight, active, choice, rrIndex, currentWeight,
                   effectiveWeight, edfPC, edfTries, edfObs, advanced, calls>>
    /\ LBFrame

\* The request counters move: a request starts or ends on host h.
SetActive(h) ==
    /\ lbType = "LeastActiveRequest"
    /\ h \in Hosts
    /\ \E n \in {active[h] - 1, active[h] + 1} :
         /\ n \in 0..MaxActive
         /\ active' = [active EXCEPT ![h] = n]
    /\ last' = NoCall
    /\ lastUnweight' = NoUnweight
    /\ UNCHANGED <<lbType, total, weight, health, choice, rrIndex, currentWeight,
                   effectiveWeight, edfPC, edfTries, edfObs, picks, stable, advanced,
                   calls>>
    /\ LBFrame

\* ---- leastActiveRequestLoadBalancer / EdfLoadBalancer ----

\* unweightChooseHost: `candicate...Count() > tempHost...Count()`
MoreActive(cand, temp) == active[cand] < active[temp]

LessActive(cand, temp) == active[cand] > active[temp]

\* unweightChooseHost: the loop over the `choice` draws of lb.rand.Intn(total), given as
\* the sequence samples, from draw cur on with the candidate cand.
RECURSIVE UnweightLoop(_, _, _)
UnweightLoop(samples, cur, cand) ==
    IF cur > Len(samples)
    THEN cand
    ELSE LET temp == samples[cur]
         IN  IF cand = NoHost
             THEN UnweightLoop(samples, cur + 1, temp)
             ELSE IF LessActive(cand, temp)
                  THEN UnweightLoop(samples, cur + 1, temp)
                  ELSE UnweightLoop(samples, cur + 1, cand)

unweightChooseHost(samples) == UnweightLoop(samples, 1, NoHost)

\* The smallest of a non-empty set of numbers.
MinOf(S) == CHOOSE m \in S : \A x \in S : m <= x

\* What a call of unweightChooseHost with these draws leaves behind: the number of
\* draws, whether they were pairwise distinct, the host returned, whether it was drawn,
\* its request count and the smallest request count among the hosts drawn.
UnweightRecord(samples) ==
    LET ret == unweightChooseHost(samples)
        drawn == {samples[i] : i \in 1..Len(samples)}
    IN  [called |-> TRUE,
         draws |-> Len(samples),
         distinct |-> Cardinality(drawn) = Len(samples),
         ret |-> ret,
         drawn |-> ret \in drawn,
         retCount |-> IF ret = NoHost THEN 0 ELSE active[ret],
         minCount |-> IF drawn = {} THEN 0 ELSE MinOf({active[h] : h \in drawn})]

\* lb.scheduler.NextAndPush: the EDF scheduler hands out some host of the set.
SchedulerCandidates == Hosts

\* `if candicate.Health() { return candicate }`
CandidateAlwaysOK(cand) == TRUE

CandidateOK(cand) == Health(cand)

\* EdfLoadBalancer.ChooseHost up to its loop.
EdfChooseHost ==
    /\ lbType = "LeastActiveRequest"
    /\ MayCall
    /\ IF total = 0
       THEN /\ Finish(NoHost, {}, 0, FALSE, "returned")
            /\ UNCHANGED <<edfPC, edfTries, edfObs>>
       ELSE IF total = 1
            THEN /\ Finish(0, {}, 0, FALSE, "returned")
                 /\ UNCHANGED <<edfPC, edfTries, edfObs>>
            ELSE /\ edfPC' = "loop"
                 /\ edfTries' = 0
                 /\ edfObs' = {}
                 /\ last' = NoCall
                 /\ UNCHANGED <<picks, calls>>
    /\ lastUnweight' = NoUnweight
    /\ UNCHANGED <<lbType, total, weight, health, active, choice, rrIndex, currentWeight,
                   effectiveWeight, stable, advanced>>
    /\ LBFrame

\* What one pass of the loop does with its candidate: a nil candidate makes
\* candicate.Health() panic, a healthy one is returned, an unhealthy one is skipped.
EdfCheck(cand) ==
    IF cand = NoHost
    THEN /\ Finish(NoHost, edfObs, edfTries, FALSE, "panic")
         /\ edfPC' = "idle"
         /\ UNCHANGED <<edfTries, edfObs>>
    ELSE IF CandidateOK(cand)
         THEN /\ Finish(cand, edfObs \cup {<<cand, Health(cand)>>}, edfTries + 1, FALSE,
                        "returned")
              /\ edfPC' = "idle"
              /\ UNCHANGED <<edfTries, edfObs>>
         ELSE /\ edfTries' = edfTries + 1
              /\ edfObs' = edfObs \cup {<<cand, Health(cand)>>}
              /\ last' = NoCall
              /\ UNCHANGED <<edfPC, picks, calls>>

\* One pass of the loop `for i := 0; i < total; i++`.
EdfTry ==
    /\ edfPC = "loop"
    /\ edfTries < total
    /\ IF hostWeightsAreEqual
       THEN \E samples \in [1..choice -> Hosts] :
              /\ lastUnweight' = UnweightRecord(samples)
              /\ EdfCheck(unweightChooseHost(samples))
       ELSE \E cand \in SchedulerCandidates :
              /\ EdfCheck(cand)
              /\ lastUnweight' = NoUnweight
    /\ UNCHANGED <<lbType, total, weight, health, active, choice, rrIndex, currentWeight,
                   effectiveWeight, stable, advanced>>
    /\ LBFrame

\* After the loop: `return targetHosts[lb.rand.Intn(total)]`.
EdfFallback ==
    /\ edfPC = "loop"
    /\ edfTries >= total
    /\ \E h \in Hosts : Finish(h, edfObs, edfTries, TRUE, "returned")
    /\ edfPC' = "idle"
    /\ lastUnweight' = NoUnweight
    /\ UNCHANGED <<lbType, total, weight, health, active, choice, rrIndex, currentWeight,
                   effectiveWeight, edfTries, edfObs, stable, advanced>>
    /\ LBFrame

LBNext ==
    \/ RRChooseHost
    \/ RRAdvance
    \/ RandomChooseHost
    \/ SWChooseHost
    \/ \E h \in 0..(MaxHosts - 1) : SetHealth(h)
    \/ \E h \in 0..(MaxHosts - 1) : SetActive(h)
    \/ EdfChooseHost
    \/ EdfTry
    \/ EdfFallback

\* The concurrent callers and the stream connection while another part is looked at.
MaxCallers == 2

Callers == 1..MaxCallers

IdleCall == [pc |-> "idle", i |-> 0, index |-> 0, ret |-> NoHost, steady |-> {}]

RCIdle == rrCall = [c \in Callers |-> IdleCall]

MaxTasks == 2

Tasks == 1..MaxTasks

\* CreateClientStream, CreateServerStream, CreateBiDirectStream
ConnKinds == {"client", "server", "bidirect"}

RxIdle == [pc |-> "idle", streamID |-> <<>>]

\* newStreamConnection: the counter is zero, the stream table is empty.
STStart(kinds) ==
    /\ connKind \in kinds
    /\ streamIDXprotocolCount = 0
    /\ activeStream = <<>>
    /\ streamLog = <<>>
    /\ rx = RxIdle
    /\ taskPC = [t \in Tasks |-> "idle"]
    /\ taskID = [t \in Tasks |-> <<>>]
    /\ allocated = <<>>

\* A client stream connection.
STIdle == STStart({"client"})

InitLB == KAIdle /\ LBInit /\ RCIdle /\ STIdle /\ ExtIdle /\ AddIdle

SpecLB == InitLB /\ [][LBNext]_vars

\* ---- properties of the load balancers ----

\* How often host h is among picks[from..to].
Count(h, from, to) == Cardinality({k \in from..to : picks[k] = h})

RECURSIVE SumWeight(_)
SumWeight(n) == IF n = 0 THEN 0 ELSE weight[n - 1] + SumWeight(n - 1)

MaxWeightOf == IF total = 0 THEN 0 ELSE CHOOSE m \in {weight[h] : h \in Hosts} :
                                            \A h \in Hosts : weight[h] <= m

Abs(x) == IF x < 0 THEN -x ELSE x

\* C4: sequential ChooseHost calls of the smooth weighted round-robin balancer on a
\* stable, all-healthy host set with weights w: every window of sum(w) consecutive
\* picks holds host h exactly w[h] times, and after any n picks the count of host h
\* differs from n * w[h] / sum(w) by at most max(w).
C4_SmoothWeightedRespectsWeights ==
    (lbType = "WeightedRoundRobin" /\ stable) =>
        LET S == SumWeight(total)
        IN  /\ \A i \in 1..Len(picks) :
                 (i + S - 1 <= Len(picks)) =>
                     \A h \in Hosts : Count(h, i, i + S - 1) = weight[h]
            /\ \A n \in 0..Len(picks) : \A h \in Hosts :
                 Abs((S * Count(h, 1, n)) - (n * weight[h])) <= S * MaxWeightOf

\* Two full windows have been picked from hosts of different weights.
C4_Witness ==
    /\ lbType = "WeightedRoundRobin"
    /\ stable
    /\ total >= 2
    /\ \E g \in Hosts, h \in Hosts : weight[g] < weight[h]
    /\ Len(picks) >= 2 * SumWeight(total)

\* The sum of currentWeight over the first n hosts.
RECURSIVE SumCurrentWeight(_)
SumCurrentWeight(n) == IF n = 0 THEN 0 ELSE currentWeight[n - 1] + SumCurrentWeight(n - 1)

\* C31: with ChooseHost calls of the smooth weighted round-robin balancer made one at a
\* time, the sum of currentWeight over all hosts is 0 after every call, whatever the
\* weights of the hosts and whatever health changes happen between the calls.
C31_WeightsSumToZero ==
    lbType = "WeightedRoundRobin" => SumCurrentWeight(total) = 0

\* A host that earlier calls left with a weight other than zero has turned unhealthy,
\* and a later call has returned another host, of a different weight.
C31_Witness ==
    /\ lbType = "WeightedRoundRobin"
    /\ calls >= 2
    /\ last.status = "returned"
    /\ last.ret # NoHost
    /\ \E g \in Hosts :
         /\ ~health[g]
         /\ currentWeight[g] # 0
         /\ weight[g] # weight[last.ret]

\* C6: a call of the round-robin, random or smooth weighted balancer returns none or a
\* host whose health check returned healthy in that call.
C6_ReturnsOnlyCheckedHealthy ==
    (lbType \in {"RoundRobin", "Random", "WeightedRoundRobin"} /\ last.status = "returned") =>
        \/ last.ret = NoHost
        \/ /\ last.ret \in Hosts
           /\ <<last.ret, TRUE>> \in last.obs
           /\ <<last.ret, FALSE>> \notin last.obs

\* The random balancer drew an unhealthy host, fell back to round robin, skipped an
\* unhealthy host there and returned a healthy one.
C6_Witness ==
    /\ lbType = "Random"
    /\ last.status = "returned"
    /\ last.fallback
    /\ last.tries >= 3
    /\ last.ret # NoHost

\* C7: round robin on a stable set of N all-healthy hosts, one call at a time: any N
\* consecutive picks return each host exactly once.
C7_EveryWindowEachHostOnce ==
    (lbType = "RoundRobin" /\ stable) =>
        \A i \in 1..Len(picks) :
            (i + total - 1 <= Len(picks)) =>
                \A h \in Hosts : Count(h, i, i + total - 1) = 1

\* C8: unweightChooseHost makes `choice` draws; with at least one draw it returns a
\* drawn host whose request count is the smallest among the drawn hosts, with none it
\* returns no host.
C8_ReturnsLeastActiveDrawn ==
    lastUnweight.called =>
        /\ lastUnweight.draws = choice
        /\ IF choice = 0
           THEN lastUnweight.ret = NoHost
           ELSE /\ lastUnweight.ret \in Hosts
                /\ lastUnweight.drawn
                /\ lastUnweight.retCount = lastUnweight.minCount

\* C8 as stated: the draws are moreover pairwise distinct and a drawn host is returned.
C8_DrawsDistinct ==
    lastUnweight.called =>
        /\ lastUnweight.draws = choice
        /\ lastUnweight.distinct
        /\ lastUnweight.drawn
        /\ lastUnweight.retCount = lastUnweight.minCount

\* Two different hosts were drawn and the less loaded one, not the first drawn with
\* the larger count, was returned.
C8_Witness ==
    /\ lastUnweight.called
    /\ lastUnweight.draws >= 2
    /\ lastUnweight.distinct
    /\ lastUnweight.retCount = 0
    /\ \E h \in Hosts : active[h] > 0

\* C9: a call of the least-active-request ChooseHost on a set of two or more hosts that
\* returns, returns a host it checked healthy, unless each of its `total` candidates
\* was checked unhealthy: then it returns some host of the set.  On a set of one host
\* it returns that host.
C9_HealthyUnlessAllCandidatesUnhealthy ==
    (lbType = "LeastActiveRequest" /\ total # 0 /\ last.status = "returned") =>
        /\ last.ret \in Hosts
        /\ IF total = 1
           THEN last.ret = 0
           ELSE IF last.fallback
                THEN /\ last.tries = total
                     /\ last.obs # {}
                     /\ \A o \in last.obs : o[2] = FALSE
                ELSE /\ <<last.ret, TRUE>> \in last.obs
                     /\ \A o \in last.obs : o[2] = TRUE => o[1] = last.ret

\* A call that skipped an unhealthy candidate and returned a healthy one.
C9_HealthyReached ==
    /\ lbType = "LeastActiveRequest"
    /\ last.status = "returned"
    /\ ~last.fallback
    /\ last.tries >= 2
    /\ <<last.ret, TRUE>> \in last.obs

\* A call whose candidates were all unhealthy and that returned an unhealthy host
\* while a healthy one was in the set.
C9_Witness ==
    /\ lbType = "LeastActiveRequest"
    /\ last.status = "returned"
    /\ last.fallback
    /\ ~health[last.ret]
    /\ \E h \in Hosts : health[h]

\* C32: on a set of two or more hosts of equal weights, a finished call of the
\* least-active-request ChooseHost has returned a host of the set, for every configured
\* choice count, 0 included.
C32_EqualWeightsNeverFail ==
    (/\ lbType = "LeastActiveRequest"
     /\ total >= 2
     /\ hostWeightsAreEqual
     /\ last.status # "none") =>
        /\ last.status = "returned"
        /\ last.ret \in Hosts


(***************************************************************************)
(*          ROUND ROBIN: ChooseHost CALLED BY CONCURRENT CALLERS           *)
(***************************************************************************)

\* Several callers run roundRobinLoadBalancer.ChooseHost on one balancer.  A caller
\* is at "loop" (the loop head), at "check" (between the atomic addition and
\* host.Health()) or "done" (ChooseHost has returned ret).  steady holds the hosts
\* that have been healthy for the whole of the call so far.

RCFrame ==
    UNCHANGED <<kaVars, stVars, extVars, addVars, lbType, total, weight, active, choice, currentWeight,
                effectiveWeight, edfPC, edfTries, edfObs, last, lastUnweight, picks,
                stable, advanced>>

\* `targets := lb.hosts.Hosts(); total := len(targets)`
RRCBegin(c) ==
    /\ rrCall[c].pc = "idle"
    /\ calls < MaxCalls
    /\ calls' = calls + 1
    /\ rrCall' = [rrCall EXCEPT ![c] = [pc |-> "loop", i |-> 0, index |-> 0,
                                        ret |-> NoHost,
                                        steady |-> {h \in Hosts : Health(h)}]]
    /\ UNCHANGED <<health, rrIndex>>
    /\ RCFrame

\* `for ...; i < total; ...`, `index := atomic.AddUint32(&lb.rrIndex, 1) % uint32(total)`,
\* and `return nil` after the loop.
RRCAdd(c) ==
    /\ rrCall[c].pc = "loop"
    /\ IF rrCall[c].i < total
       THEN /\ rrIndex' = AddUint32One(rrIndex)
            /\ rrCall' = [rrCall EXCEPT ![c].pc = "check",
                                        ![c].index = U32Mod(rrIndex', total)]
       ELSE /\ rrCall' = [rrCall EXCEPT ![c].pc = "done", ![c].ret = NoHost]
            /\ UNCHANGED rrIndex
    /\ UNCHANGED <<health, calls>>
    /\ RCFrame

\* `if host.Health() { return host }`, else `i++`
RRCCheck(c) ==
    /\ rrCall[c].pc = "check"
    /\ rrCall' = IF Health(rrCall[c].index)
                 THEN [rrCall EXCEPT ![c].pc = "done", ![c].ret = rrCall[c].index]
                 ELSE [rrCall EXCEPT ![c].pc = "loop", ![c].i = @ + 1]
    /\ UNCHANGED <<health, rrIndex, calls>>
    /\ RCFrame

\* The caller has taken the result and may call again.
RRCReturn(c) ==
    /\ rrCall[c].pc = "done"
    /\ rrCall' = [rrCall EXCEPT ![c] = IdleCall]
    /\ UNCHANGED <<health, rrIndex, calls>>
    /\ RCFrame

\* The health checker sets the health bit of host h to the opposite value while calls
\* are running.
RRCSetHealth(h) ==
    /\ h \in Hosts
    /\ \E c \in Callers : rrCall[c].pc \in {"loop", "check"}
    /\ health' = [health EXCEPT ![h] = ~@]
    /\ rrCall' = [c \in Callers |-> [rrCall[c] EXCEPT !.steady = @ \ {h}]]
    /\ UNCHANGED <<rrIndex, calls>>
    /\ RCFrame

RRCNext ==
    \/ \E c \in Callers : RRCBegin(c)
    \/ \E c \in Callers : RRCAdd(c)
    \/ \E c \in Callers : RRCCheck(c)
    \/ \E c \in Callers : RRCReturn(c)
    \/ \E h \in 0..(MaxHosts - 1) : RRCSetHealth(h)

InitRRC == KAIdle /\ LBStart({"RoundRobin"}, 0..MaxHosts) /\ RCIdle /\ STIdle /\ ExtIdle /\ AddIdle

SpecRRC == InitRRC /\ [][RRCNext]_vars

\* C5: a ChooseHost call of the round-robin balancer returns none only if no host has
\* been healthy for the whole of the call, also with concurrent callers.
C5_NoneOnlyWhenNoHostHealthy ==
    \A c \in Callers :
        (rrCall[c].pc = "done" /\ rrCall[c].ret = NoHost) => rrCall[c].steady = {}

\* A caller has made its `total` tries and returned none although a host was healthy
\* for the whole of its call: the additions of another caller moved the index past it.
C5_NoneWhileHostHealthy ==
    \E c \in Callers :
        /\ rrCall[c].pc = "done"
        /\ rrCall[c].ret = NoHost
        /\ rrCall[c].steady # {}
        /\ rrCall[c].i = total


\* Several callers run smoothWeightedRRLoadBalancer.ChooseHost on one balancer; the field
\* lock of the balancer is never taken.  A caller is at "add" (the loop head, up to the
\* update of effectiveWeight), at "load" and "select" (the two atomic loads of the
\* comparison), at "sub" (after the loop) or "done".  The health of the hosts stays as it
\* was when the balancer was built.

SWCFrame ==
    UNCHANGED <<kaVars, rcVars, stVars, extVars, fgVars, cdVars, fiVars, lbType, total, weight, health,
                active, choice, rrIndex, edfPC, edfTries, edfObs, last, lastUnweight, picks,
                stable, advanced>>

\* `var totalWeight int64 = 0; var selectedHostWeighted *hostSmoothWeighted`
SWCBegin(c) ==
    /\ swCall[c].pc = "idle"
    /\ calls < MaxCalls
    /\ calls' = calls + 1
    /\ swCall' = [swCall EXCEPT ![c] = [IdleChoose EXCEPT !.pc = "add"]]
    /\ UNCHANGED <<currentWeight, effectiveWeight, swRets>>
    /\ SWCFrame

\* The loop head and, for a healthy host, the atomic addition to currentWeight, the
\* addition to totalWeight and the update of effectiveWeight.
SWCAdd(c) ==
    /\ swCall[c].pc = "add"
    /\ LET idx == swCall[c].idx IN
       IF idx >= total
       THEN /\ swCall' = [swCall EXCEPT ![c].pc = "sub"]
            /\ UNCHANGED <<currentWeight, effectiveWeight>>
       ELSE IF ~Health(idx)
            THEN /\ swCall' = [swCall EXCEPT ![c].idx = idx + 1]
                 /\ UNCHANGED <<currentWeight, effectiveWeight>>
            ELSE /\ currentWeight' = [currentWeight EXCEPT ![idx] = @ + effectiveWeight[idx]]
                 /\ effectiveWeight' =
                        IF effectiveWeight[idx] < weight[idx]
                        THEN [effectiveWeight EXCEPT ![idx] = @ + 1] ELSE effectiveWeight
                 /\ swCall' = [swCall EXCEPT
                                  ![c].totalWeight = @ + effectiveWeight[idx],
                                  ![c].pc = IF swCall[c].selected = NoHost
                                            THEN "select" ELSE "load"]
    /\ UNCHANGED <<calls, swRets>>
    /\ SWCFrame

\* atomic.LoadInt64(&hw.currentWeight)
SWCLoad(c) ==
    /\ swCall[c].pc = "load"
    /\ swCall' = [swCall EXCEPT ![c].loaded = currentWeight[swCall[c].idx],
                                ![c].pc = "select"]
    /\ UNCHANGED <<currentWeight, effectiveWeight, calls, swRets>>
    /\ SWCFrame

\* `selectedHostWeighted == nil || ... > atomic.LoadInt64(&selectedHostWeighted.currentWeight)`
SWCSelect(c) ==
    /\ swCall[c].pc = "select"
    /\ LET idx == swCall[c].idx
           sel == swCall[c].selected
           take == sel = NoHost \/ swCall[c].loaded > currentWeight[sel]
       IN  swCall' = [swCall EXCEPT ![c].selected = IF take THEN idx ELSE sel,
                                    ![c].idx = idx + 1,
                                    ![c].pc = "add"]
    /\ UNCHANGED <<currentWeight, effectiveWeight, calls, swRets>>
    /\ SWCFrame

\* atomic.AddInt64(&selectedHostWeighted.currentWeight, -totalWeight); return selectedHost
SWCReturn(c) ==
    /\ swCall[c].pc = "sub"
    /\ LET sel == swCall[c].selected IN
       /\ currentWeight' =
            IF sel # NoHost
            THEN [currentWeight EXCEPT ![sel] = WinnerWeight(@, swCall[c].totalWeight)]
            ELSE currentWeight
       /\ swRets' = [swRets EXCEPT ![sel] = @ + 1]
    /\ swCall' = [swCall EXCEPT ![c] = IdleChoose]
    /\ UNCHANGED <<effectiveWeight, calls>>
    /\ SWCFrame

SWCNext ==
    \/ \E c \in Callers : SWCBegin(c)
    \/ \E c \in Callers : SWCAdd(c)
    \/ \E c \in Callers : SWCLoad(c)
    \/ \E c \in Callers : SWCSelect(c)
    \/ \E c \in Callers : SWCReturn(c)

\* A balancer on two hosts, and no caller inside ChooseHost.
SWCStart ==
    /\ swCall = [c \in Callers |-> IdleChoose]
    /\ swRets = [h \in Hosts \cup {NoHost} |-> 0]

InitSWC ==
    KAIdle /\ LBStart({"WeightedRoundRobin"}, {2}) /\ RCIdle /\ STIdle /\ ExtIdle /\ FGIdle
        /\ RestIdle /\ SWCStart

SpecSWC == InitSWC /\ [][SWCNext]_vars

\* The weights and the results after n ChooseHost calls made one after the other on the
\* balancer as it was built.
RECURSIVE SWSequential(_)
SWSequential(n) ==
    IF n = 0
    THEN [cw |-> [h \in Hosts |-> 0], ew |-> weight, rets |-> [h \in Hosts \cup {NoHost} |-> 0]]
    ELSE LET before == SWSequential(n - 1)
             r == SWLoop(0, before.cw, before.ew, 0, NoHost)
         IN  [cw |-> IF r.sel # NoHost
                     THEN [r.cw EXCEPT ![r.sel] = WinnerWeight(@, r.totalWeight)]
                     ELSE r.cw,
              ew |-> r.ew,
              rets |-> [before.rets EXCEPT ![r.sel] = @ + 1]]

SWQuiet == \A c \in Callers : swCall[c].pc = "idle"

\* C30: whenever no call is running, the results returned so far and the weights are those
\* of the same number of calls made one after the other.
C30_Linearizable ==
    SWQuiet =>
        /\ swRets = SWSequential(calls).rets
        /\ currentWeight = SWSequential(calls).cw

\* Two overlapping calls on two healthy hosts have returned the same host, which two calls
\* made one after the other never do.
C30_SameHostTwice ==
    /\ SWQuiet
    /\ calls = 2
    /\ \A h \in Hosts : Health(h)
    /\ \E h \in Hosts : swRets[h] = 2
    /\ \E h \in Hosts : SWSequential(2).rets[h] = 1

(***************************************************************************)
(*            X-PROTOCOL STREAM CONNECTION: NewStream, OnReceive            *)
(***************************************************************************)

\* A client stream connection (no serverStreamConnectionEventListener).  Several tasks
\* call NewStream; the responses of the streams arrive through OnReceive.

\* The model stops after MaxStreams calls of NewStream.
MaxStreams == 11

\* The peer opens at most MaxServerStreams server streams.
MaxServerStreams == 2

\* The frames read from the connection carry the stream ids 1..MaxWireID.
MaxWireID == 2

STFrame == UNCHANGED <<kaVars, lbVars, rcVars, extVars, addVars>>

\* strconv.FormatUint(n, 10): the decimal digits of n, most significant first.
RECURSIVE FormatUint(_)
FormatUint(n) == IF n < 10 THEN <<n>> ELSE Append(FormatUint(n \div 10), n % 10)

\* strconv.ParseUint(s, 10, 64) of a digit string, as in stream.ID().
RECURSIVE ParseUint(_)
ParseUint(str) ==
    IF str = <<>> THEN 0
    ELSE (10 * ParseUint(SubSeq(str, 1, Len(str) - 1))) + str[Len(str)]

\* atomic.AddUint64(&conn.streamIDXprotocolCount, 1), below 2^64
AddUint64Kept(count) == count

AddUint64One(count) == count + 1

\* streamMap.Set(streamID, s)
StreamMapSet(m, streamID, stream) ==
    [k \in (DOMAIN m) \cup {streamID} |-> IF k = streamID THEN stream ELSE m[k]]

\* streamMap.Remove(streamID)
StreamMapRemove(m, streamID) == [k \in (DOMAIN m) \ {streamID} |-> m[k]]

\* streamMap.Has(streamID)
StreamMapHas(m, streamID) == streamID \in DOMAIN m

\* conn.serverStreamConnectionEventListener != nil
HasServerListener == connKind \in {"server", "bidirect"}

\* A stream object is named by its direction, its id and, for a server stream, the
\* number of server streams opened under that id before it.
StreamName(direction, streamID, gen) == <<direction, streamID, gen>>

\* The stream value stored in the table: its direction, and its name in streamLog.
Stream(direction, name) == [direction |-> direction, name |-> name]

\* The phase of stream n becomes phase.
Phase(log, n, phase) ==
    [k \in (DOMAIN log) \cup {n} |-> IF k = n THEN phase ELSE log[k]]

\* NewStream up to `streamID := strconv.FormatUint(nStreamID, 10)`.  Only a connection
\* created with client callbacks is handed out as a ClientStreamConnection.
NewStreamAdd(t) ==
    /\ connKind # "server"
    /\ taskPC[t] = "idle"
    /\ streamIDXprotocolCount < MaxStreams
    /\ streamIDXprotocolCount' = AddUint64One(streamIDXprotocolCount)
    /\ taskID' = [taskID EXCEPT ![t] = FormatUint(streamIDXprotocolCount')]
    /\ allocated' = Append(allocated, taskID'[t])
    /\ streamLog' = Phase(streamLog, StreamName("ClientStream", taskID'[t], 0), "new")
    /\ taskPC' = [taskPC EXCEPT ![t] = "set"]
    /\ UNCHANGED <<connKind, activeStream, rx>>
    /\ STFrame

\* The stream task t is creating.
TaskStream(t) == StreamName("ClientStream", taskID[t], 0)

\* NewStream from `conn.activeStream.Set(streamID, stream)` to its return.
NewStreamSet(t) ==
    /\ taskPC[t] = "set"
    /\ activeStream' = StreamMapSet(activeStream, taskID[t],
                                    Stream("ClientStream", TaskStream(t)))
    /\ streamLog' = Phase(streamLog, TaskStream(t), "active")
    /\ taskPC' = [taskPC EXCEPT ![t] = "idle"]
    /\ taskID' = [taskID EXCEPT ![t] = <<>>]
    /\ UNCHANGED <<streamIDXprotocolCount, connKind, rx, allocated>>
    /\ STFrame

\* The server streams opened so far.
ServerStreams == {n \in DOMAIN streamLog : n[1] = "ServerStream"}

\* The name of the next server stream opened under streamID.
NewServerStream(streamID) ==
    StreamName("ServerStream", streamID,
               Cardinality({n \in ServerStreams : n[2] = streamID}))

\* onNewStreamDetected(streamID) on table tbl with log: a server stream is put into
\* the table unless the table has the id.
onNewStreamDetected(tbl, log, streamID) ==
    IF StreamMapHas(tbl, streamID)
    THEN [tbl |-> tbl, log |-> log]
    ELSE [tbl |-> StreamMapSet(tbl, streamID,
                               Stream("ServerStream", NewServerStream(streamID))),
          log |-> Phase(log, NewServerStream(streamID), "detected")]

\* OnReceive(streamID) up to its `conn.activeStream.Get(streamID)`.
OnReceiveDetect(tbl, log, streamID) ==
    IF HasServerListener
    THEN onNewStreamDetected(tbl, log, streamID)
    ELSE [tbl |-> tbl, log |-> log]

\* OnReceive(streamID) from `conn.activeStream.Get(streamID)` on: the frame is handed
\* to the receiver of the stream found, and a client stream is removed from the table.
OnReceiveDeliver(tbl, log, streamID) ==
    IF StreamMapHas(tbl, streamID)
    THEN LET stream == tbl[streamID]
         IN  IF stream.direction = "ClientStream"
             THEN [tbl |-> StreamMapRemove(tbl, streamID),
                   log |-> Phase(log, stream.name, "ended")]
             ELSE [tbl |-> tbl,
                   log |-> IF log[stream.name] = "detected"
                           THEN Phase(log, stream.name, "active") ELSE log]
    ELSE [tbl |-> tbl, log |-> log]

\* The read task enters OnReceive(streamID).  The peer opens at most MaxServerStreams
\* streams.
StreamOnReceive(streamID) ==
    /\ rx.pc = "idle"
    /\ rx' = [pc |-> "deliver", streamID |-> streamID]
    /\ LET r == OnReceiveDetect(activeStream, streamLog, streamID)
       IN  /\ (r.log # streamLog) => Cardinality(ServerStreams) < MaxServerStreams
           /\ activeStream' = r.tbl
           /\ streamLog' = r.log
    /\ UNCHANGED <<streamIDXprotocolCount, connKind, taskPC, taskID, allocated>>
    /\ STFrame

\* The read task finishes OnReceive.
StreamDeliver ==
    /\ rx.pc = "deliver"
    /\ rx' = RxIdle
    /\ LET r == OnReceiveDeliver(activeStream, streamLog, rx.streamID)
       IN  /\ activeStream' = r.tbl
           /\ streamLog' = r.log
    /\ UNCHANGED <<streamIDXprotocolCount, connKind, taskPC, taskID, allocated>>
    /\ STFrame

\* endStream of server stream n, called once by the task that answers its request, up
\* to the write: the response is written if the table has a stream under the id.
\* (endStream of a client stream writes the request and leaves the table alone.)
EndStreamWrite(n) ==
    /\ n \in ServerStreams
    /\ streamLog[n] = "active"
    /\ streamLog' = Phase(streamLog, n,
                          IF StreamMapHas(activeStream, n[2])
                          THEN "written" ELSE "unwritten")
    /\ UNCHANGED <<streamIDXprotocolCount, connKind, activeStream, rx, taskPC, taskID,
                   allocated>>
    /\ STFrame

\* endStream of server stream n: `s.connection.activeStream.Remove(s.streamID)`.
EndStreamRemove(n) ==
    /\ n \in ServerStreams
    /\ streamLog[n] \in {"written", "unwritten"}
    /\ activeStream' = StreamMapRemove(activeStream, n[2])
    /\ streamLog' = Phase(streamLog, n, "ended")
    /\ UNCHANGED <<streamIDXprotocolCount, connKind, rx, taskPC, taskID, allocated>>
    /\ STFrame

STNext ==
    \/ \E t \in Tasks : NewStreamAdd(t)
    \/ \E t \in Tasks : NewStreamSet(t)
    \/ \E n \in 1..MaxWireID : StreamOnReceive(FormatUint(n))
    \/ StreamDeliver

InitStream == KAIdle /\ LBIdle /\ RCIdle /\ STIdle /\ ExtIdle /\ AddIdle

SpecStream == InitStream /\ [][STNext]_vars

\* A stream connection of any kind, with the tasks that answer the requests.
TableNext ==
    \/ STNext
    \/ \E n \in ServerStreams : EndStreamWrite(n)
    \/ \E n \in ServerStreams : EndStreamRemove(n)

InitTable == KAIdle /\ LBIdle /\ RCIdle /\ STStart(ConnKinds) /\ ExtIdle /\ AddIdle

SpecTable == InitTable /\ [][TableNext]_vars

\* Stream n is the stream the table holds under its id.
InTable(n) == StreamMapHas(activeStream, n[2]) /\ activeStream[n[2]].name = n

\* The role of stream n is running: a client stream has been put into the table and
\* its response has not been received, a server stream has been put into the table and
\* the writing of its response has not begun.
RoleRunning(n) == streamLog[n] \in {"detected", "active"}

\* C11: a stream is in the stream table of its connection while its role is running,
\* and is not in the table once its role has ended (the response of a client stream
\* received, the response of a server stream written and the stream removed).
C11_InTableExactlyDuringRole ==
    \A n \in DOMAIN streamLog :
        /\ RoleRunning(n) => InTable(n)
        /\ streamLog[n] = "ended" => ~InTable(n)

\* The same on a connection created with one kind of listener only.
C11_OneDirection == (connKind # "bidirect") => C11_InTableExactlyDuringRole

\* A client stream and a server stream have both ended on a connection with one kind
\* of listener ...
C11_ServerEnded ==
    /\ connKind = "server"
    /\ \E n \in ServerStreams : streamLog[n] = "ended" /\ n[3] = 1

\* ... and on a connection with both, NewStream has put its stream under the id of a
\* server stream whose response is not written yet.
C11_Overwritten ==
    \E n \in ServerStreams :
        /\ RoleRunning(n)
        /\ StreamMapHas(activeStream, n[2])
        /\ activeStream[n[2]].direction = "ClientStream"

\* C10: the stream ids NewStream hands out on one connection are pairwise distinct and
\* each is greater than every id handed out before it, also with concurrent callers.
C10_StreamIDsDistinctIncreasing ==
    /\ \A i \in 1..Len(allocated) : \A j \in 1..Len(allocated) :
         (i < j) => /\ allocated[i] # allocated[j]
                    /\ ParseUint(allocated[i]) < ParseUint(allocated[j])
    /\ \A t \in Tasks : \A u \in Tasks :
         (t # u /\ taskPC[t] = "set" /\ taskPC[u] = "set") => taskID[t] # taskID[u]

\* Ids of one and of two digits have been handed out and every task is inside
\* NewStream, between its atomic addition and its Set.
C10_Witness ==
    /\ Len(allocated) >= 10
    /\ \A t \in Tasks : taskPC[t] = "set"


(***************************************************************************)
(*                   DUBBO CODEC: SplitFrame, GetStreamID                  *)
(***************************************************************************)

\* A byte string is a sequence of numbers 0..255.

DUBBO_HEADER_LEN == 16

DUBBO_ID_LEN == 8

DUBBO_ID_IDX == 4

DUBBO_DATA_LEN_IDX == 12

\* []byte{0xda, 0xbb}
DUBBO_MAGIC_TAG == <<218, 187>>

\* data[from:to]
Slice(data, from, to) == SubSeq(data, from + 1, to)

\* data[from:]
SliceFrom(data, from) == SubSeq(data, from + 1, Len(data))

\* binary.BigEndian.Uint32(b), as a uint32 held in two 16-bit limbs
BigEndianUint32(b) == U32((b[1] * 256) + b[2], (b[3] * 256) + b[4])

\* int(u) of a uint32 u where int has 64 bits.  Values from 32767 * 2^16 on are all
\* given as 32767 * 2^16: they are only compared with lengths of buffers, which are
\* far smaller.
IntOfUint32(u) == IF u.hi < 32767 THEN (u.hi * Limb) + u.lo ELSE 32767 * Limb

\* uint32(dataLen) < frameLen, for a dataLen below 2^16
Uint32Less(dataLen, frameLen) == frameLen.hi > 0 \/ dataLen < frameLen.lo

\* isValidDubboData(data): the pair (bool, int)
isValidDubboData(data) ==
    IF Len(data) < DUBBO_HEADER_LEN
    THEN [ok |-> FALSE, bodyLen |-> -1]
    ELSE IF Slice(data, 0, 2) # DUBBO_MAGIC_TAG
         THEN [ok |-> FALSE, bodyLen |-> -1]
         ELSE LET bodyLen == BigEndianUint32(Slice(data, DUBBO_DATA_LEN_IDX,
                                                   DUBBO_DATA_LEN_IDX + 4))
                  frameLen == U32Add(U32(0, DUBBO_HEADER_LEN), bodyLen)
              IN  IF Uint32Less(Len(data), frameLen)
                  THEN [ok |-> FALSE, bodyLen |-> -1]
                  ELSE [ok |-> TRUE, bodyLen |-> IntOfUint32(bodyLen)]

\* getDubboLen(data)
getDubboLenHeader(data) == IF ~isValidDubboData(data).ok THEN -1 ELSE DUBBO_HEADER_LEN

getDubboLen(data) == IF ~isValidDubboData(data).ok THEN -1 ELSE DUBBO_HEADER_LEN + isValidDubboData(data).bodyLen

\* The loop of SplitFrame with start, dataLen and frames as they are at its head.
RECURSIVE SplitLoop(_, _, _, _)
SplitLoop(data, start, dataLen, frames) ==
    LET frameLen == getDubboLen(SliceFrom(data, start))
    IN  IF frameLen > 0 /\ dataLen >= frameLen
        THEN LET frames1 == Append(frames, Slice(data, start, start + frameLen))
             IN  IF dataLen - frameLen = 0
                 THEN frames1
                 ELSE SplitLoop(data, start + frameLen, dataLen - frameLen, frames1)
        ELSE frames

\* rpcDubbo.SplitFrame(data)
SplitFrame(data) == SplitLoop(data, 0, Len(data), <<>>)

\* A 64-bit integer is held as its eight bytes, most significant first; a decimal
\* string as the sequence of its digits.

\* The big-endian number b divided by ten, with r carried in from the left: the quotient
\* and the remainder.
RECURSIVE DivTen(_, _)
DivTen(b, r) ==
    IF b = <<>>
    THEN [q |-> <<>>, r |-> r]
    ELSE LET v == (r * 256) + Head(b)
             rest == DivTen(Tail(b), v % 10)
         IN  [q |-> <<v \div 10>> \o rest.q, r |-> rest.r]

\* The decimal digits of the big-endian number b, none for zero.
RECURSIVE Digits(_)
Digits(b) ==
    IF \A i \in 1..Len(b) : b[i] = 0
    THEN <<>>
    ELSE LET d == DivTen(b, 0) IN Append(Digits(d.q), d.r)

\* fmt.Sprintf("%d", reqID) of a uint64
SprintfUint64(reqID) == IF Digits(reqID) = <<>> THEN <<0>> ELSE Digits(reqID)

\* rpcDubbo.GetStreamID(data): "" for invalid data
GetStreamID(data) ==
    IF ~isValidDubboData(data).ok
    THEN <<>>
    ELSE SprintfUint64(Slice(data, DUBBO_ID_IDX, DUBBO_ID_IDX + DUBBO_ID_LEN))

\* The concatenation of a sequence of byte strings.
RECURSIVE Concat(_)
Concat(ss) == IF ss = <<>> THEN <<>> ELSE Head(ss) \o Concat(Tail(ss))


(***************************************************************************)
(*              X-PROTOCOL STREAM CONNECTION: READ AND Dispatch            *)
(***************************************************************************)

\* The peer sends bytes; the read task appends what it reads to the read buffer and
\* calls Dispatch (dubbo codec), which passes each frame of SplitFrame to OnReceive
\* and drains it.

\* The bytes sent are up to MaxChunks frames, the last one possibly cut short, with
\* payloads of up to MaxBody bytes.
MaxChunks == 3

MaxBody == 2

DPFrame ==
    UNCHANGED <<kaVars, lbVars, rcVars, streamIDXprotocolCount, connKind, rx, taskPC,
                taskID, allocated, pxVars, rfVars, saVars, addVars>>

\* A 16-byte header: magic, flag 0xc2, status 0, the id and the data length.
Header(magic, id, len4) == magic \o <<194, 0>> \o <<0, 0, 0, 0, 0, 0, 0, id>> \o len4

Body(n) == [k \in 1..n |-> 7]

\* Frames with good magic: a frame without payload, a frame with MaxBody payload bytes, and a
\* header whose data length 0xfffffff0 makes 16 + bodyLen wrap to 0 in 32 bits.
GoodChunks ==
    {Header(DUBBO_MAGIC_TAG, 1, <<0, 0, 0, 0>>),
     Header(DUBBO_MAGIC_TAG, 2, <<0, 0, 0, MaxBody>>) \o Body(MaxBody),
     Header(DUBBO_MAGIC_TAG, 1, <<255, 255, 255, 240>>)}

\* A header with a wrong magic.
BadChunk == Header(<<218, 0>>, 1, <<0, 0, 0, 0>>)

Chunks == GoodChunks \cup {BadChunk}

\* What the peer may send: every prefix of up to MaxChunks chunks.
WireInputs ==
    UNION {{SubSeq(Concat(cs), 1, n) : n \in 0..Len(Concat(cs))} :
           cs \in UNION {[1..k -> Chunks] : k \in 0..MaxChunks}}

\* A server or a client stream connection and the bytes its peer sends.
DPStart ==
    /\ wire \in WireInputs
    /\ readBuf = <<>>
    /\ requestList = <<>>
    /\ dpPC = "idle"
    /\ handed = <<>>
    /\ received = <<>>
    /\ connState = "open"

\* The read sizes tried: one byte, a header, all there is.
ReadSizes == {1, DUBBO_HEADER_LEN, Len(wire)} \cap (1..Len(wire))

\* `requestLen := len(request)`
RequestLenHeader(request) == DUBBO_HEADER_LEN

RequestLen(request) == Len(request)

\* buf.Drain(n)
Drain(buf, n) == SliceFrom(buf, n)

\* The read task reads k bytes into the buffer and calls Dispatch, which runs
\* `requestList := conn.codec.SplitFrame(buf.Bytes())`.
ConnRead(k) ==
    /\ connState = "open"
    /\ dpPC = "idle"
    /\ k \in ReadSizes
    /\ readBuf' = readBuf \o SubSeq(wire, 1, k)
    /\ received' = received \o SubSeq(wire, 1, k)
    /\ wire' = SubSeq(wire, k + 1, Len(wire))
    /\ requestList' = SplitFrame(readBuf')
    /\ dpPC' = "loop"
    /\ UNCHANGED <<handed, connState, activeStream, streamLog>>
    /\ DPFrame

\* One pass of the loop of Dispatch: GetStreamID, conn.OnReceive, buf.Drain(requestLen).
DispatchFrame ==
    /\ dpPC = "loop"
    /\ requestList # <<>>
    /\ LET request == Head(requestList)
           streamID == GetStreamID(request)
           d == OnReceiveDetect(activeStream, streamLog, streamID)
           r == OnReceiveDeliver(d.tbl, d.log, streamID)
       IN  /\ handed' = Append(handed, request)
           /\ activeStream' = r.tbl
           /\ streamLog' = r.log
           /\ readBuf' = Drain(readBuf, RequestLen(request))
    /\ requestList' = Tail(requestList)
    /\ UNCHANGED <<wire, dpPC, received, connState>>
    /\ DPFrame

\* Dispatch returns.
DispatchReturn ==
    /\ dpPC = "loop"
    /\ requestList = <<>>
    /\ dpPC' = "idle"
    /\ UNCHANGED <<wire, readBuf, requestList, handed, received, connState, activeStream,
                   streamLog>>
    /\ DPFrame

\* The peer closes the connection: nothing more is read.
ConnRemoteClose ==
    /\ connState = "open"
    /\ dpPC = "idle"
    /\ connState' = "closed"
    /\ UNCHANGED <<wire, readBuf, requestList, dpPC, handed, received, activeStream,
                   streamLog>>
    /\ DPFrame

DPNext ==
    \/ \E k \in 1..(MaxChunks * (DUBBO_HEADER_LEN + MaxBody)) : ConnRead(k)
    \/ DispatchFrame
    \/ DispatchReturn
    \/ ConnRemoteClose

InitDispatch ==
    KAIdle /\ LBIdle /\ RCIdle /\ STStart({"client", "server"}) /\ DPStart /\ PXIdle
        /\ RFIdle /\ SAIdle /\ AddIdle

SpecDispatch == InitDispatch /\ [][DPNext]_vars

\* b begins with a complete frame: 16 header bytes that begin with the magic, followed
\* by at least as many bytes as the header's data length says.
BeginsWithFrame(b) ==
    /\ Len(b) >= 16
    /\ b[1] = 218 /\ b[2] = 187
    /\ b[13] = 0 /\ b[14] = 0
    /\ 16 + (256 * b[15]) + b[16] <= Len(b)

\* f is exactly one complete frame.
IsFrame(f) == BeginsWithFrame(f) /\ Len(f) = 16 + (256 * f[15]) + f[16]

IsPrefix(p, b) == Len(p) <= Len(b) /\ SubSeq(b, 1, Len(p)) = p

\* C12: Dispatch passes the complete frames of the read buffer to OnReceive in the
\* order of the wire and drains exactly their bytes: the frames passed so far followed
\* by the buffer are the bytes read so far, every frame passed is one complete frame,
\* and when Dispatch has returned the buffer does not begin with a complete frame.
C12_DispatchInOrderDrainsFrames ==
    /\ Concat(handed) \o readBuf = received
    /\ \A i \in 1..Len(handed) : IsFrame(handed[i])
    /\ dpPC = "idle" => ~BeginsWithFrame(readBuf)

\* Frames with and without payload have been passed on, and a frame with a complete
\* header whose payload has not arrived yet is left in the buffer.
C12_Witness ==
    /\ dpPC = "idle"
    /\ Len(handed) >= 2
    /\ \E i \in 1..Len(handed) : Len(handed[i]) > DUBBO_HEADER_LEN
    /\ Len(readBuf) > DUBBO_HEADER_LEN
    /\ readBuf[1] = 218 /\ readBuf[2] = 187

\* C13: the frames SplitFrame returns for a buffer are complete frames, their
\* concatenation is a prefix of the buffer, and the bytes after that prefix do not
\* begin with a complete frame.
C13_SplitFramePrefix ==
    LET frames == SplitFrame(readBuf)
    IN  /\ \A i \in 1..Len(frames) : IsFrame(frames[i])
        /\ IsPrefix(Concat(frames), readBuf)
        /\ ~BeginsWithFrame(SliceFrom(readBuf, Len(Concat(frames))))

\* C13 as stated: the bytes after the prefix are fewer than the 16 bytes of a header.
C13_RestShorterThanHeader ==
    LET frames == SplitFrame(readBuf)
    IN  /\ IsPrefix(Concat(frames), readBuf)
        /\ Len(readBuf) - Len(Concat(frames)) < 16

\* SplitFrame has been applied to a buffer of two frames followed by a header whose
\* payload is incomplete.
C13_Witness ==
    /\ dpPC = "loop"
    /\ Len(requestList) = 2
    /\ requestList = SplitFrame(readBuf)
    /\ Len(readBuf) - Len(Concat(requestList)) >= 16

\* C14: when Dispatch has returned and the buffer begins with 16 bytes that do not
\* begin with the magic, the connection is closed.
C14_BadMagicCloses ==
    (/\ dpPC = "idle"
     /\ Len(readBuf) >= 16
     /\ ~(readBuf[1] = 218 /\ readBuf[2] = 187)) => connState = "closed"

\* Dispatch has returned with the connection open and a buffer that begins with a wrong
\* magic; a complete frame behind it has not been passed on and nothing is left to
\* read.
C14_BadMagicStays ==
    /\ dpPC = "idle"
    /\ connState = "open"
    /\ Len(readBuf) > 32
    /\ ~(readBuf[1] = 218 /\ readBuf[2] = 187)
    /\ BeginsWithFrame(SliceFrom(readBuf, 16))
    /\ wire = <<>>

(***************************************************************************)
(*        HEALTH-CHECK FILTER AND THE PROXY'S REQUEST STATE MACHINE        *)
(***************************************************************************)
\* One request in the proxy: the health-check stream filter (before route), the route,
\* the tries on upstream hosts chosen by the cluster's round-robin balancer, the
\* per-try and the overall timer, the reset of the downstream, and the clean-up.

\* numRetries of the retry policy goes up to MaxRetries.
MaxRetries == 2

\* Other requests make up to MaxOther ChooseHost calls on the same balancer.
MaxOther == 2

PXFrame ==
    UNCHANGED <<kaVars, lbType, total, weight, health, active, choice, currentWeight,
                effectiveWeight, edfPC, edfTries, edfObs, last, lastUnweight, picks,
                stable, advanced, calls, rcVars, stVars, dpVars, rfChecked, rfFailed,
                saVars, addVars>>

HeaderXprotocolHeartbeat == "x-protocol-heartbeat"

X_PROTOCOL_HEARTBEAT_HIJACK == "xprotocol-heartbeat-hijack"

HeaderXprotocolStreamId == "x-protocol-streamid"

\* headers.Set(key, value)
HeaderSet(headers, key, value) ==
    [k \in (DOMAIN headers) \cup {key} |-> IF k = key THEN value ELSE headers[k]]

\* The big-endian number b times ten plus c, in the width of b: the bytes and the
\* carry out of the most significant byte.
RECURSIVE TimesTenPlus(_, _)
TimesTenPlus(b, c) ==
    IF b = <<>>
    THEN [bytes |-> <<>>, carry |-> c]
    ELSE LET v == (b[Len(b)] * 10) + c
             rest == TimesTenPlus(SubSeq(b, 1, Len(b) - 1), v \div 256)
         IN  [bytes |-> Append(rest.bytes, v % 256), carry |-> rest.carry]

\* The digits of str from the i-th on, added to the 64-bit number n.
RECURSIVE ParseDigits(_, _, _)
ParseDigits(str, i, n) ==
    IF i > Len(str)
    THEN [err |-> FALSE, n |-> n]
    ELSE LET t == TimesTenPlus(n, str[i])
         IN  IF t.carry # 0
             THEN [err |-> TRUE, n |-> n]
             ELSE ParseDigits(str, i + 1, t.bytes)

\* strconv.ParseInt(streamID, 10, 64) of a string of digits: a syntax error on the
\* empty string, a range error above 2^63 - 1.
ParseInt(streamID) ==
    IF streamID = <<>>
    THEN [err |-> TRUE, n |-> <<>>]
    ELSE LET r == ParseDigits(streamID, 1, [i \in 1..DUBBO_ID_LEN |-> 0])
         IN  IF r.err \/ r.n[1] >= 128 THEN [err |-> TRUE, n |-> <<>>] ELSE r

\* rpcDubbo.SetStreamID(data, streamID): binary.Write lays the int64 down as its eight
\* bytes, which the loop copies over the id of the frame.
SetStreamID(data, streamID) ==
    IF ~isValidDubboData(data).ok
    THEN data
    ELSE LET reqID == ParseInt(streamID)
         IN  IF reqID.err
             THEN data
             ELSE [i \in 1..Len(data) |->
                     IF i > DUBBO_ID_IDX /\ i <= DUBBO_ID_IDX + DUBBO_ID_LEN
                     THEN reqID.n[i - DUBBO_ID_IDX]
                     ELSE data[i]]

\* hex.DecodeString("dabb22140000000000000001000000024e4e")
strEchoBytes == <<218, 187, 34, 20, 0, 0, 0, 0, 0, 0, 0, 1, 0, 0, 0, 2, 78, 78>>

\* rpcDubbo.BuildHeartbeatResp(headers); <<>> stands for nil
BuildHeartbeatResp(headers) ==
    IF HeaderXprotocolStreamId \notin DOMAIN headers
    THEN <<>>
    ELSE SetStreamID(strEchoBytes, headers[HeaderXprotocolStreamId])

\* stream.AppendHeaders(headers, endStream) of the downstream's server stream: what
\* endStream writes to the connection.
StreamAppendHeaders(headers, endStream) ==
    [kind |-> "headers", status |-> 0, body |-> "",
     data |-> IF X_PROTOCOL_HEARTBEAT_HIJACK \in DOMAIN headers
              THEN BuildHeartbeatResp(headers) ELSE <<>>,
     hijack |-> X_PROTOCOL_HEARTBEAT_HIJACK \in DOMAIN headers,
     end |-> endStream]

\* `if !f.passThrough`
InterceptsAlways(passThrough) == TRUE

Intercepts(passThrough) == ~passThrough

\* healthCheckFilter.handleIntercept(headers): the headers it leaves
handleIntercept(headers) == HeaderSet(headers, X_PROTOCOL_HEARTBEAT_HIJACK, "true")

\* healthCheckFilter.OnReceive: the filter, the headers and the status it leaves, and
\* what its handler.AppendHeaders(headers, true) has written.
healthCheckFilterOnReceive(filter, passThrough, headers) ==
    IF HeaderXprotocolHeartbeat \in DOMAIN headers
    THEN LET f == [protocol |-> headers[HeaderXprotocolHeartbeat],
                   healthCheckReq |-> TRUE, healthCheck |-> TRUE]
         IN  IF Intercepts(passThrough)
             THEN [filter |-> f @@ [status |-> "Stop"],
                   headers |-> handleIntercept(headers),
                   appended |-> <<StreamAppendHeaders(handleIntercept(headers), TRUE)>>]
             ELSE [filter |-> f @@ [status |-> "Continue"], headers |-> headers,
                   appended |-> <<>>]
    ELSE [filter |-> [filter EXCEPT !.status = "Continue"], headers |-> headers,
          appended |-> <<>>]

\* The request headers Dispatch builds: the stream id, and the heartbeat marker when
\* the codec's GetMetas reports one.
RequestHeaders ==
    LET h == [k \in {HeaderXprotocolStreamId} |-> FormatUint(1)]
    IN  {h, HeaderSet(h, HeaderXprotocolHeartbeat, "dubbo")}

\* The routes: none matches, a direct response, or a cluster of two hosts each of
\* which answers with success ("good"), answers with a failure status ("bad") or
\* refuses connections ("down").
PxConfs ==
    {[passThrough |-> pt, route |-> "none", status |-> 0, body |-> "", numRetries |-> 0,
      behave |-> <<>>] : pt \in BOOLEAN}
    \cup {[passThrough |-> pt, route |-> "direct", status |-> st, body |-> b,
           numRetries |-> 0, behave |-> <<>>] :
          pt \in BOOLEAN, st \in {200, 500}, b \in {"", "mock 400 response"}}
    \cup {[passThrough |-> pt, route |-> "cluster", status |-> 0, body |-> "",
           numRetries |-> n, behave |-> bh] :
          pt \in BOOLEAN, n \in 0..MaxRetries, bh \in [Hosts -> {"good", "bad", "down"}]}

\* A request arrives on a downstream connection.
PXStart ==
    /\ pxConf \in PxConfs
    /\ pxHeaders \in RequestHeaders
    /\ pxFilter = [protocol |-> "", healthCheckReq |-> FALSE, healthCheck |-> FALSE,
                   status |-> "none"]
    /\ pxState = "IDLE"
    /\ pxHost = NoHost
    /\ pxSent = <<>>
    /\ pxTries = <<>>
    /\ pxRetries = 0
    /\ pxTimer = [perTry |-> "off", try |-> 0, global |-> "off"]
    /\ pxEvents = [written |-> 0, reset |-> 0, timeout |-> 0]
    /\ downstreamCleaned = 0
    /\ pxCleanups = 0
    /\ pxConns = {}
    /\ pxOther = 0
    /\ pxReset = FALSE

\* A response the proxy synthesizes or passes on.
Response(kind, status, body) ==
    [kind |-> kind, status |-> status, body |-> body, data |-> <<>>, hijack |-> FALSE,
     end |-> TRUE]

\* The response of a direct-response route.
DirectResponseNoBody(conf) == Response("direct", conf.status, "")

DirectResponse(conf) == Response("direct", conf.status, conf.body)

\* Stopping a timer that is armed; one that has fired already still runs its handler.
StopTimers(tm) ==
    [tm EXCEPT !.perTry = IF @ = "armed" THEN "off" ELSE @,
               !.global = IF @ = "armed" THEN "off" ELSE @]

\* `atomic.CompareAndSwapUint32(&s.downstreamCleaned, 0, 1)`
CleanAlways(cleaned) == TRUE

CleanOnce(cleaned) == cleaned = 0

\* The request ends with the terminal event `kind`, unless it has ended already: the
\* flags are set, `sent` is written to the downstream, the timers are stopped and the
\* request is cleaned up. tm is the timers as the caller leaves them.
Terminate(kind, flags, sent, tm) ==
    IF CleanOnce(downstreamCleaned)
    THEN /\ downstreamCleaned' = 1
         /\ pxCleanups' = pxCleanups + 1
         /\ pxEvents' = [pxEvents EXCEPT ![kind] = @ + 1]
         /\ rfFlags' = rfFlags \cup flags
         /\ pxSent' = pxSent \o sent
         /\ pxTimer' = StopTimers(tm)
         /\ pxState' = "DONE"
    ELSE /\ pxTimer' = tm
         /\ UNCHANGED <<downstreamCleaned, pxCleanups, pxEvents, rfFlags, pxSent, pxState>>

\* RECEIVED_HEADERS: the receive filters before route, then the route.
PxOnReceive ==
    /\ pxState = "IDLE"
    /\ LET r == healthCheckFilterOnReceive(pxFilter, pxConf.passThrough, pxHeaders)
       IN  /\ pxHeaders' = r.headers
           /\ pxFilter' = r.filter
           /\ IF r.filter.status = "Stop"
              THEN Terminate("written", {}, r.appended, pxTimer)
              ELSE CASE pxConf.route = "none" ->
                          Terminate("written", {"NoRouteFound"},
                                    <<Response("hijack", 404, "")>>, pxTimer)
                     [] pxConf.route = "direct" ->
                          Terminate("written", {}, <<DirectResponse(pxConf)>>, pxTimer)
                     [] OTHER ->
                          /\ pxState' = "ROUTED"
                          /\ UNCHANGED <<downstreamCleaned, pxCleanups, pxEvents, rfFlags,
                                         pxSent, pxTimer>>
    /\ UNCHANGED <<pxConf, pxHost, pxTries, pxRetries, pxConns, pxOther, pxReset, rrIndex>>
    /\ PXFrame

\* ROUTED: chooseHost on the cluster's balancer.
PxChooseHost ==
    /\ pxState = "ROUTED"
    /\ LET r == RRResult
       IN  /\ rrIndex' = r.idx
           /\ IF r.ret = NoHost
              THEN /\ Terminate("written", {"NoHealthyUpstream"},
                                <<Response("hijack", 503, "")>>, pxTimer)
                   /\ UNCHANGED pxHost
              ELSE /\ pxHost' = r.ret
                   /\ pxState' = "POOL_ACQUIRED"
                   /\ UNCHANGED <<downstreamCleaned, pxCleanups, pxEvents, rfFlags, pxSent,
                                  pxTimer>>
    /\ UNCHANGED <<pxConf, pxHeaders, pxFilter, pxTries, pxRetries, pxConns, pxOther,
                   pxReset>>
    /\ PXFrame

\* Retries remain.
RetriesRemain == pxRetries < pxConf.numRetries

\* POOL_ACQUIRED: an upstream stream from the pool of the chosen host.
PxAcquire ==
    /\ pxState = "POOL_ACQUIRED"
    /\ IF pxConf.behave[pxHost] = "down"
       THEN IF RetriesRemain
            THEN /\ pxRetries' = pxRetries + 1
                 /\ pxState' = "ROUTED"
                 /\ UNCHANGED <<downstreamCleaned, pxCleanups, pxEvents, rfFlags, pxSent,
                                pxTimer, pxConns>>
            ELSE /\ Terminate("written", {"UpstreamConnectionFailure"},
                              <<Response("hijack", 502, "")>>, pxTimer)
                 /\ UNCHANGED <<pxRetries, pxConns>>
       ELSE /\ pxConns' = pxConns \cup {pxHost}
            /\ pxState' = "UPSTREAM_SENDING"
            /\ UNCHANGED <<downstreamCleaned, pxCleanups, pxEvents, rfFlags, pxSent,
                           pxTimer, pxRetries>>
    /\ UNCHANGED <<pxConf, pxHeaders, pxFilter, pxHost, pxTries, pxOther, pxReset, rrIndex>>
    /\ PXFrame

\* UPSTREAM_SENDING: the request is encoded to the upstream stream, the per-try timer
\* is started, and the overall timer if it is not running.
PxSendUpstream ==
    /\ pxState = "UPSTREAM_SENDING"
    /\ pxTries' = Append(pxTries, pxHost)
    /\ pxTimer' = [perTry |-> "armed", try |-> Len(pxTries) + 1,
                   global |-> IF pxTimer.global = "off" /\ pxTries = <<>>
                              THEN "armed" ELSE pxTimer.global]
    /\ pxState' = "UPSTREAM_RECEIVING"
    /\ UNCHANGED <<pxConf, pxHeaders, pxFilter, pxHost, pxSent, pxRetries, pxEvents,
                   downstreamCleaned, pxCleanups, pxConns, pxOther, pxReset, rfFlags,
                   rrIndex>>
    /\ PXFrame

\* The status a host answers with.
UpstreamStatus(host) == IF pxConf.behave[host] = "good" THEN 200 ELSE 500

\* The retry predicate, retry-on 5xx.
RetryOn(status) == status >= 500

\* A retry: the per-try timer is cancelled and the request returns to ROUTED.
Retry(tm) ==
    /\ pxRetries' = pxRetries + 1
    /\ pxTimer' = [tm EXCEPT !.perTry = IF @ = "armed" THEN "off" ELSE @]
    /\ pxState' = "ROUTED"
    /\ UNCHANGED <<downstreamCleaned, pxCleanups, pxEvents, rfFlags, pxSent>>

\* UPSTREAM_RECEIVING: the response headers of the upstream arrive.
PxUpstreamResponse ==
    /\ pxState = "UPSTREAM_RECEIVING"
    /\ LET status == UpstreamStatus(pxHost)
       IN  IF RetryOn(status) /\ RetriesRemain
           THEN Retry(pxTimer)
           ELSE /\ Terminate("written", {}, <<Response("upstream", status, "")>>, pxTimer)
                /\ UNCHANGED pxRetries
    /\ UNCHANGED <<pxConf, pxHeaders, pxFilter, pxHost, pxTries, pxConns, pxOther, pxReset,
                   rrIndex>>
    /\ PXFrame

\* A timer that is armed fires: its handler is queued.
PxTimerFire(t) ==
    /\ pxTimer[t] = "armed"
    /\ pxTimer' = [pxTimer EXCEPT ![t] = "fired"]
    /\ UNCHANGED <<pxConf, pxHeaders, pxFilter, pxState, pxHost, pxSent, pxTries, pxRetries,
                   pxEvents, downstreamCleaned, pxCleanups, pxConns, pxOther, pxReset,
                   rfFlags, rrIndex>>
    /\ PXFrame

\* The handler of the per-try timer runs: a retry trigger for the try it was started
\* for, the end of the request when no retry remains.
PxPerTryTimeout ==
    /\ pxTimer.perTry = "fired"
    /\ LET tm == [pxTimer EXCEPT !.perTry = "off"]
       IN  IF pxState = "UPSTREAM_RECEIVING" /\ pxTimer.try = Len(pxTries)
           THEN IF RetriesRemain
                THEN Retry(tm)
                ELSE /\ Terminate("timeout", {"UpstreamRequestTimeout"}, <<>>, tm)
                     /\ UNCHANGED pxRetries
           ELSE /\ pxTimer' = tm
                /\ UNCHANGED <<downstreamCleaned, pxCleanups, pxEvents, rfFlags, pxSent,
                               pxState, pxRetries>>
    /\ UNCHANGED <<pxConf, pxHeaders, pxFilter, pxHost, pxTries, pxConns, pxOther, pxReset,
                   rrIndex>>
    /\ PXFrame

\* The handler of the overall timer runs: fail fast.
PxGlobalTimeout ==
    /\ pxTimer.global = "fired"
    /\ Terminate("timeout", {"UpstreamRequestTimeout"}, <<>>,
                 [pxTimer EXCEPT !.global = "off"])
    /\ UNCHANGED <<pxConf, pxHeaders, pxFilter, pxHost, pxTries, pxRetries, pxConns,
                   pxOther, pxReset, rrIndex>>
    /\ PXFrame

\* The downstream connection is closed by its peer: the request is reset.
PxDownstreamReset ==
    /\ ~pxReset
    /\ pxReset' = TRUE
    /\ Terminate("reset", {}, <<>>, pxTimer)
    /\ UNCHANGED <<pxConf, pxHeaders, pxFilter, pxHost, pxTries, pxRetries, pxConns,
                   pxOther, rrIndex>>
    /\ PXFrame

\* Another request calls ChooseHost on the balancer of the cluster.
PxOtherChooseHost ==
    /\ pxConf.route = "cluster"
    /\ pxOther < MaxOther
    /\ pxOther' = pxOther + 1
    /\ rrIndex' = RRResult.idx
    /\ UNCHANGED <<pxConf, pxHeaders, pxFilter, pxState, pxHost, pxSent, pxTries, pxRetries,
                   pxTimer, pxEvents, downstreamCleaned, pxCleanups, pxConns, pxReset,
                   rfFlags>>
    /\ PXFrame

PXNext ==
    \/ PxOnReceive
    \/ PxChooseHost
    \/ PxAcquire
    \/ PxSendUpstream
    \/ PxUpstreamResponse
    \/ \E t \in {"perTry", "global"} : PxTimerFire(t)
    \/ PxPerTryTimeout
    \/ PxGlobalTimeout
    \/ PxDownstreamReset
    \/ PxOtherChooseHost

InitProxy ==
    KAIdle /\ LBStart({"RoundRobin"}, {2}) /\ RCIdle /\ STIdle /\ DPIdle /\ PXStart
        /\ RFIdle /\ SAIdle /\ AddIdle

SpecProxy == InitProxy /\ [][PXNext]_vars

\* The terminal events that have occurred.
TerminalEvents == pxEvents.written + pxEvents.reset + pxEvents.timeout

\* A response has been written to the downstream, and its status.
ResponseWritten == pxState = "DONE" /\ pxEvents.written = 1 /\ pxSent # <<>>

FinalStatus == pxSent[Len(pxSent)].status

\* C15: once the health-check filter has run: with passThrough false and the heartbeat
\* marker in the headers it has set the hijack header to "true", appended the headers
\* with end of stream and returned Stop, and the request is done without a route, a
\* host or an upstream connection; otherwise it has returned Continue, has not set the
\* hijack header and has appended nothing.
C15_HealthCheckHijack ==
    pxFilter.status # "none" =>
        IF ~pxConf.passThrough /\ HeaderXprotocolHeartbeat \in DOMAIN pxHeaders
        THEN /\ pxFilter.status = "Stop"
             /\ X_PROTOCOL_HEARTBEAT_HIJACK \in DOMAIN pxHeaders
             /\ pxHeaders[X_PROTOCOL_HEARTBEAT_HIJACK] = "true"
             /\ Len(pxSent) = 1
             /\ pxSent[1].kind = "headers" /\ pxSent[1].hijack /\ pxSent[1].end
             /\ pxState = "DONE"
             /\ pxHost = NoHost /\ pxTries = <<>> /\ pxConns = {}
        ELSE /\ pxFilter.status = "Continue"
             /\ X_PROTOCOL_HEARTBEAT_HIJACK \notin DOMAIN pxHeaders
             /\ \A i \in 1..Len(pxSent) : pxSent[i].kind # "headers"

\* The filter has answered a heartbeat request itself: the response written is the
\* heartbeat response frame carrying the stream id of the request.
C15_Witness ==
    /\ pxFilter.status = "Stop"
    /\ Len(pxSent) = 1
    /\ IsFrame(pxSent[1].data)
    /\ GetStreamID(pxSent[1].data) = pxHeaders[HeaderXprotocolStreamId]

\* C17: at most one terminal event (response written, reset dispatched, timeout fired)
\* has occurred, the request has been cleaned up exactly as often, and it is done
\* exactly when one has occurred; a request without a route that was not reset first
\* ends with the 404 response written and NoRouteFound set.
C17_OneTerminalEventOnce ==
    /\ TerminalEvents <= 1
    /\ pxCleanups = TerminalEvents
    /\ downstreamCleaned = TerminalEvents
    /\ (pxState = "DONE") <=> (TerminalEvents = 1)
    /\ (pxConf.route = "none" /\ pxFilter.status = "Continue") =>
           /\ pxEvents.written = 1
           /\ "NoRouteFound" \in rfFlags
           /\ pxSent = <<Response("hijack", 404, "")>>

\* The response of an upstream has been written, and afterwards the overall timer's
\* handler has run and the downstream has been reset.
C17_Witness ==
    /\ ResponseWritten
    /\ pxSent[Len(pxSent)].kind = "upstream"
    /\ pxReset
    /\ pxTries # <<>>
    /\ pxTimer.global = "off"
    /\ "UpstreamRequestTimeout" \notin rfFlags

\* The request is routed to a cluster of which one host always fails and the other
\* always succeeds, both are healthy and the retry policy allows a retry.
FailingAndSucceeding ==
    /\ pxFilter.status = "Continue"
    /\ pxConf.route = "cluster"
    /\ pxConf.numRetries >= 1
    /\ \E g \in Hosts, f \in Hosts :
           /\ pxConf.behave[g] = "good" /\ pxConf.behave[f] # "good"
           /\ health[g] /\ health[f]

\* C18 as stated: with such a cluster the response written downstream is a success.
C18_RetryReachesGoodHost ==
    (FailingAndSucceeding /\ ResponseWritten) => FinalStatus = 200

\* C18: a failure of an upstream try is passed downstream only when no retry remains;
\* and with such a cluster, while no other request calls the balancer and no try on
\* the succeeding host times out, the response written downstream is a success.
C18_RetryReselectsHost ==
    /\ (ResponseWritten /\ RetriesRemain /\ pxSent[Len(pxSent)].kind = "upstream")
           => FinalStatus = 200
    /\ (/\ FailingAndSucceeding
        /\ ResponseWritten
        /\ pxOther = 0
        /\ \A i \in 1..Len(pxTries) :
               pxConf.behave[pxTries[i]] = "good"
                   => (i = Len(pxTries) /\ pxSent[Len(pxSent)].kind = "upstream"))
           => FinalStatus = 200

\* The first try went to the failing host, the retry to the succeeding one, and the
\* success has been written downstream.
C18_Witness ==
    /\ FailingAndSucceeding
    /\ ResponseWritten
    /\ pxOther = 0
    /\ Len(pxTries) = 2
    /\ pxConf.behave[pxTries[1]] = "bad"
    /\ pxConf.behave[pxTries[2]] = "good"
    /\ FinalStatus = 200

\* C19: a request on a direct-response route never has a host chosen or an upstream
\* connection made, and once the route is resolved the downstream has received exactly
\* the synthesized response with the configured status and body.
C19_DirectResponse ==
    pxConf.route = "direct" =>
        /\ pxHost = NoHost /\ pxTries = <<>> /\ pxConns = {}
        /\ pxFilter.status = "Continue" =>
               /\ pxState = "DONE"
               /\ pxEvents.written = 1
               /\ Len(pxSent) = 1
               /\ pxSent[1].kind = "direct"
               /\ pxSent[1].status = pxConf.status
               /\ pxSent[1].body = pxConf.body

\* A direct response with a body has been written.
C19_Witness ==
    /\ pxConf.route = "direct"
    /\ pxConf.body # ""
    /\ pxState = "DONE"
    /\ Len(pxSent) = 1
    /\ pxSent[1].body = pxConf.body
    /\ pxSent[1].status = 500

(***************************************************************************)
(*                     RESPONSE FLAGS AND isRequestFailed                  *)
(***************************************************************************)

RFFrame == UNCHANGED <<kaVars, lbVars, rcVars, stVars, dpVars, pxVars, saVars, addVars>>

\* The response flags of the request info.
ResponseFlags ==
    {"NoHealthyUpstream", "UpstreamRequestTimeout", "UpstreamRemoteReset",
     "UpstreamConnectionFailure", "UpstreamConnectionTermination", "NoRouteFound",
     "DelayInjected", "FaultInjected", "RateLimited"}

\* requestInfo.GetResponseFlag(flag)
GetResponseFlag(flags, flag) == flag \in flags

\* downStream.isRequestFailed(): one of the flags that mark a failed request is set.
isRequestFailedAnyFlag(flags) == flags # {}

isRequestFailed(flags) ==
    \/ GetResponseFlag(flags, "NoHealthyUpstream")
    \/ GetResponseFlag(flags, "UpstreamConnectionFailure")
    \/ GetResponseFlag(flags, "NoRouteFound")
    \/ GetResponseFlag(flags, "FaultInjected")
    \/ GetResponseFlag(flags, "RateLimited")

\* requestInfo.SetResponseFlag(flag), while the request is being handled.
SetResponseFlag(flag) ==
    /\ ~rfChecked
    /\ rfFlags' = rfFlags \cup {flag}
    /\ UNCHANGED <<rfChecked, rfFailed>>
    /\ RFFrame

\* The request ends and its metrics are recorded: isRequestFailed is evaluated.
RequestMetrics ==
    /\ ~rfChecked
    /\ rfChecked' = TRUE
    /\ rfFailed' = isRequestFailed(rfFlags)
    /\ UNCHANGED rfFlags
    /\ RFFrame

RFNext ==
    \/ \E flag \in ResponseFlags : SetResponseFlag(flag)
    \/ RequestMetrics

InitFlags == KAIdle /\ LBIdle /\ RCIdle /\ STIdle /\ ExtIdle /\ AddIdle

SpecFlags == InitFlags /\ [][RFNext]_vars

\* The flags that do not make a request a failed one.
NotFailedFlags ==
    {"UpstreamRequestTimeout", "UpstreamRemoteReset", "UpstreamConnectionTermination",
     "DelayInjected"}

\* C16: isRequestFailed is true exactly when a flag other than UpstreamRequestTimeout,
\* UpstreamRemoteReset, UpstreamConnectionTermination and DelayInjected is set.
C16_FailedExactlyOnOtherFlag ==
    rfChecked => (rfFailed <=> (rfFlags \ NotFailedFlags # {}))

\* isRequestFailed has been evaluated on the four flags together, and is false.
C16_Witness ==
    /\ rfChecked
    /\ rfFlags = NotFailedFlags
    /\ ~rfFailed

(***************************************************************************)
(*                        PROTOCOL AUTO-SELECTION                          *)
(***************************************************************************)
\* The first bytes of a new connection are given to the ProtocolMatch of every stream
\* factory until one matches.

\* The peer sends a magic, or a part of one, followed by up to MaxJunk other bytes.
MaxJunk == 1

SAFrame == UNCHANGED <<kaVars, lbVars, rcVars, stVars, dpVars, pxVars, rfVars, addVars>>

\* http2.ClientPreface
ClientPreface ==
    <<"P", "R", "I", " ", "*", " ", "H", "T", "T", "P", "/", "2", ".", "0", "\r", "\n",
      "\r", "\n", "S", "M", "\r", "\n", "\r", "\n">>

\* The HTTP/1 methods.
httpMethod ==
    {<<"G", "E", "T">>, <<"P", "U", "T">>, <<"P", "O", "S", "T">>, <<"H", "E", "A", "D">>,
     <<"D", "E", "L", "E", "T", "E">>, <<"O", "P", "T", "I", "O", "N", "S">>}

\* The magics of a protocol that is recognized by its first bytes.
Magics(prot) ==
    CASE prot = "Http2" -> {ClientPreface}
      [] prot = "Http1" -> httpMethod
      [] OTHER -> {}

\* The recognizer of a protocol with magics: a match when the bytes begin with a magic,
\* EAGAIN when they are the beginning of one, FAILED otherwise.
MagicMatch(prot, magic) ==
    IF \E m \in Magics(prot) : IsPrefix(m, magic) THEN "nil"
    ELSE IF \E m \in Magics(prot) : IsPrefix(magic, m) THEN "EAGAIN"
    ELSE "FAILED"

\* streamConnFactory.ProtocolMatch of the x-protocol: the context decides, not the bytes
XProtocolMatchAgain(subProtocol) == IF subProtocol THEN "nil" ELSE "EAGAIN"

XProtocolMatch(subProtocol) == IF subProtocol THEN "nil" ELSE "FAILED"

ProtocolMatch(prot, subProtocol, magic) ==
    IF prot = "X" THEN XProtocolMatch(subProtocol) ELSE MagicMatch(prot, magic)

\* The loop of SelectStreamFactoryProtocol over the factories from position i on.
RECURSIVE SelectLoop(_, _, _, _, _)
SelectLoop(order, i, subProtocol, magic, again) ==
    IF i > Len(order)
    THEN [prot |-> "", err |-> IF again THEN "EAGAIN" ELSE "FAILED"]
    ELSE LET err == ProtocolMatch(order[i], subProtocol, magic)
         IN  IF err = "nil"
             THEN [prot |-> order[i], err |-> "nil"]
             ELSE SelectLoop(order, i + 1, subProtocol, magic, again \/ err = "EAGAIN")

SelectStreamFactoryProtocol(order, subProtocol, magic) ==
    SelectLoop(order, 1, subProtocol, magic, FALSE)

Protocols == {"Http1", "Http2", "X"}

\* The orders in which the registered factories may be consulted.
FactoryOrders ==
    {o \in [1..3 -> Protocols] : \A i \in 1..3, j \in 1..3 : i # j => o[i] # o[j]}

\* The bytes of s followed by n other bytes.
WithJunk(s, n) == s \o [k \in 1..n |-> "x"]

\* What a peer may send first: a magic or a beginning of one, followed by up to MaxJunk
\* other bytes, or bytes that begin no magic.
FirstBytes ==
    UNION {{WithJunk(SubSeq(m, 1, k), n) : k \in 0..Len(m), n \in 0..MaxJunk} :
           m \in {ClientPreface} \cup httpMethod}
    \cup {<<"h", "e", "l", "l", "o", "w", "o", "r", "l", "d">>,
          <<"P", "P", "P", "P", "P", "P", "P">>}

\* A new connection.
SAStart ==
    /\ saOrder \in FactoryOrders
    /\ saSub \in BOOLEAN
    /\ saWire \in FirstBytes \ {<<>>}
    /\ saBuf = <<>>
    /\ saProt = ""
    /\ saErr = "none"
    /\ saConn = "open"

\* Bytes are read and the protocol is selected on all bytes read so far: a match sets
\* the protocol of the connection, EAGAIN waits for the next read, FAILED closes the
\* connection.
SARead(k) ==
    /\ saConn = "open"
    /\ saErr \in {"none", "EAGAIN"}
    /\ k \in {1, 3, Len(saWire)} \cap (1..Len(saWire))
    /\ saBuf' = saBuf \o SubSeq(saWire, 1, k)
    /\ saWire' = SubSeq(saWire, k + 1, Len(saWire))
    /\ LET r == SelectStreamFactoryProtocol(saOrder, saSub, saBuf')
       IN  /\ saProt' = r.prot
           /\ saErr' = r.err
           /\ saConn' = IF r.err = "FAILED" THEN "closed" ELSE "open"
    /\ UNCHANGED <<saOrder, saSub>>
    /\ SAFrame

\* The peer closes a connection whose protocol is not selected yet.
SAPeerClose ==
    /\ saConn = "open"
    /\ saErr \in {"none", "EAGAIN"}
    /\ saConn' = "closed"
    /\ UNCHANGED <<saOrder, saSub, saWire, saBuf, saProt, saErr>>
    /\ SAFrame

SANext ==
    \/ \E k \in 1..(Len(ClientPreface) + MaxJunk) : SARead(k)
    \/ SAPeerClose

InitSelect == KAIdle /\ LBIdle /\ RCIdle /\ STIdle /\ DPIdle /\ PXIdle /\ RFIdle /\ SAStart /\ AddIdle

SpecSelect == InitSelect /\ [][SANext]_vars

\* The magics of all protocols, each with its protocol.
AllMagics == {<<"Http2", ClientPreface>>} \cup {<<"Http1", m>> : m \in httpMethod}

\* What the first bytes b call for: the protocol whose magic b starts with, EAGAIN
\* when b is a proper beginning of a magic and starts with none, FAILED otherwise.
ByMagic(b) ==
    IF \E pm \in AllMagics : IsPrefix(pm[2], b)
    THEN [prot |-> (CHOOSE pm \in AllMagics : IsPrefix(pm[2], b))[1], err |-> "nil"]
    ELSE IF \E pm \in AllMagics : IsPrefix(b, pm[2])
    THEN [prot |-> "", err |-> "EAGAIN"]
    ELSE [prot |-> "", err |-> "FAILED"]

Selected == [prot |-> saProt, err |-> saErr]

\* C20 as stated: the result of the selection is what the magics call for.
C20_SelectedByMagic == saErr # "none" => Selected = ByMagic(saBuf)

\* C20: on a connection whose context carries no sub-protocol the result of the
\* selection is what the magics call for; on one whose context carries a sub-protocol
\* the x-protocol matches whatever the bytes are, so the result is a protocol: the
\* one the magics call for when that is consulted before the x-protocol, else the
\* x-protocol.
C20_SelectedByMagicOrContext ==
    saErr # "none" =>
        IF ~saSub
        THEN Selected = ByMagic(saBuf)
        ELSE /\ saErr = "nil"
             /\ saProt \in {"X", ByMagic(saBuf).prot}
             /\ saProt = "X" <=>
                    \A i \in 1..3 : saOrder[i] = ByMagic(saBuf).prot
                                       => \E j \in 1..(i - 1) : saOrder[j] = "X"

\* Without a sub-protocol: the whole client preface has been read and has selected
\* HTTP2.
C20_Witness ==
    /\ ~saSub
    /\ saBuf = ClientPreface
    /\ saWire = <<>>
    /\ saProt = "Http2"
    /\ saErr = "nil"

\* With a sub-protocol in the context, bytes that begin no magic select the x-protocol.
C20_MatchedByContext ==
    /\ saSub
    /\ ByMagic(saBuf).err = "FAILED"
    /\ saProt = "X"

(***************************************************************************)
(*            DUBBO CODEC: SetStreamID, GetStreamID AND GetMetas           *)
(***************************************************************************)

CDFrame == UNCHANGED <<kaVars, lbVars, rcVars, stVars, extVars, fgVars, swVars, fiVars>>

DUBBO_FLAG_IDX == 2

DUBBO_STATUS_IDX == 3

XPROTOCOL_PLUGIN_DUBBO == "dubbo"

\* getSerializeId(flag): flag & 0x1f
getSerializeId(flag) == flag % 32

\* getEventPing(flag): (flag & (1 << 5)) != 0
getEventPing(flag) == (flag \div 32) % 2 # 0

\* isReqFrame(flag): (flag & (1 << 7)) != 0
isReqFrame(flag) == (flag \div 128) % 2 # 0

\* ---- hessian.Decoder.Decode, for the tags the payloads below are made of ----

\* A tag up to 0x1f is the length of a short string; 78 is 'N' (null); the tags 0x80
\* to 0xbf are the integers tag - 0x90; 72 is 'H', the start of an untyped map, and 90
\* is 'Z', its end.

DecodeError == [err |-> TRUE, kind |-> "none", val |-> <<>>, next |-> 0]

Decoded(kind, val, next) == [err |-> FALSE, kind |-> kind, val |-> val, next |-> next]

RECURSIVE Decode(_, _)
RECURSIVE DecodeMap(_, _, _)
\* decoder.Decode() with the decoder at pos (the first byte is 1): an error at the end
\* of the data and on a string cut short.
Decode(data, pos) ==
    IF pos > Len(data)
    THEN DecodeError
    ELSE LET t == data[pos]
         IN  CASE t <= 31 ->
                    IF pos + t > Len(data)
                    THEN DecodeError
                    ELSE Decoded("string", SubSeq(data, pos + 1, pos + t), pos + t + 1)
               [] t = 78 -> Decoded("nil", <<>>, pos + 1)
               [] t >= 128 /\ t <= 191 -> Decoded("int32", t - 144, pos + 1)
               [] t = 72 -> DecodeMap(data, pos + 1, EmptyMap)
               [] OTHER -> DecodeError

\* The pairs of an untyped map up to its 'Z'; hessian.ToMapStringString keeps the pairs
\* of two strings.
DecodeMap(data, pos, m) ==
    IF pos > Len(data)
    THEN DecodeError
    ELSE IF data[pos] = 90
         THEN Decoded("map", m, pos + 1)
         ELSE LET k == Decode(data, pos)
                  v == IF k.err THEN DecodeError ELSE Decode(data, k.next)
              IN  IF k.err \/ v.err
                  THEN DecodeError
                  ELSE DecodeMap(data, v.next,
                                 IF k.kind = "string" /\ v.kind = "string"
                                 THEN Put(m, k.val, v.val) ELSE m)

\* hessian.DescRegex.FindAllString(str, -1): the number of type descriptors in str, for
\* strings of the one-letter descriptors V Z B C D F I J S.
DescCount(str) ==
    Cardinality({i \in 1..Len(str) : str[i] \in {86, 90, 66, 67, 68, 70, 73, 74, 83}})

\* ---- unSerialize ----

unserializeCtlAttachments == 6

NilAttr == [nil |-> TRUE, panic |-> FALSE]

\* `_, err = decoder.Decode()` for each of n arguments, from pos on: the position after
\* them, 0 on an error.
RECURSIVE DecodeArgs(_, _, _)
DecodeArgs(data, pos, n) ==
    IF n = 0
    THEN pos
    ELSE LET a == Decode(data, pos)
         IN  IF a.err THEN 0 ELSE DecodeArgs(data, a.next, n - 1)

\* One of the four leading string fields: decoded, and a string.
StringField(f) == ~f.err /\ f.kind = "string"

\* unSerialize(serializeId, data, unserializeCtlAttachments): nil, a panic of the
\* unchecked `field.(string)` on the argument types, or the attributes.
unSerialize(serializeId, data) ==
    IF serializeId # 2
    THEN NilAttr
    ELSE LET dubboVersion == Decode(data, 1)
             path == Decode(data, dubboVersion.next)
             version == Decode(data, path.next)
             method == Decode(data, version.next)
             argsTypes == Decode(data, method.next)
             after == DecodeArgs(data, argsTypes.next, DescCount(argsTypes.val))
             att == Decode(data, after)
         IN  IF ~StringField(dubboVersion) THEN NilAttr
             ELSE IF ~StringField(path) THEN NilAttr
             ELSE IF ~StringField(version) THEN NilAttr
             ELSE IF ~StringField(method) THEN NilAttr
             ELSE IF argsTypes.err THEN NilAttr
             ELSE IF argsTypes.kind # "string" THEN [nil |-> FALSE, panic |-> TRUE]
             ELSE IF after = 0 THEN NilAttr
             ELSE IF att.err THEN NilAttr
             ELSE [nil |-> FALSE, panic |-> FALSE,
                   serviceName |-> path.val, methodName |-> method.val,
                   path |-> path.val, version |-> version.val,
                   dubboVersion |-> dubboVersion.val,
                   attachments |-> IF att.kind = "map" THEN att.val ELSE EmptyMap]

\* ---- dubboGetMeta ----

\* What GetMetas hands back: nil or a map, held as the entries under the keys the codec
\* names and the entries copied from the attachments.
MetaNil == [status |-> "returned", nil |-> TRUE, named |-> EmptyMap, attachments |-> EmptyMap]

MetaMap(named, attachments) ==
    [status |-> "returned", nil |-> FALSE, named |-> named, attachments |-> attachments]

\* `retMap[...] = ret.serviceName` with ret nil
MetaPanic == [status |-> "panic", nil |-> TRUE, named |-> EmptyMap, attachments |-> EmptyMap]

\* `if rslt == false || bodyLen <= 0 { return nil }`
NoMetaAnyLen(v) == ~v.ok

NoMeta(v) == ~v.ok \/ v.bodyLen <= 0

\* The response branch of dubboGetMeta.
ResponseMeta(data) ==
    LET status == data[DUBBO_STATUS_IDX + 1]
        field == Decode(SliceFrom(data, DUBBO_HEADER_LEN), 1)
        named == Put(EmptyMap, "HeaderXprotocolRespStatus", FormatUint(status))
    IN  IF ~field.err /\ field.kind = "int32" /\ field.val \in {0, 3}
        THEN MetaMap(Put(named, "HeaderXprotocolRespIsException", "true"), EmptyMap)
        ELSE MetaMap(named, EmptyMap)

dubboGetMeta(data) ==
    LET v == isValidDubboData(data)
    IN  IF NoMeta(v)
        THEN MetaNil
        ELSE LET flag == data[DUBBO_FLAG_IDX + 1]
             IN  IF getEventPing(flag)
                 THEN MetaMap(Put(EmptyMap, HeaderXprotocolHeartbeat, XPROTOCOL_PLUGIN_DUBBO),
                              EmptyMap)
                 ELSE IF ~isReqFrame(flag)
                      THEN ResponseMeta(data)
                      ELSE LET ret == unSerialize(getSerializeId(flag),
                                                  SliceFrom(data, DUBBO_HEADER_LEN))
                           IN  IF ret.nil \/ ret.panic
                               THEN MetaPanic
                               ELSE MetaMap(
                                      [k \in {"serviceName", "dubboVersion", "methodName",
                                              "path", "version"} |-> ret[k]],
                                      ret.attachments)

\* rpcDubbo.GetMetas(data): metaFunc is dubboGetMeta once the package is initialised.
GetMetas(data) == dubboGetMeta(data)

\* ---- the frames and ids the codec is applied to ----

\* Flag bytes: a response, a heartbeat response, a request, a heartbeat request, a
\* two-way request, all with serialization id 2 (hessian), and a request with
\* serialization id 3.
CodecFlags == {2, 34, 130, 162, 194, 131}

\* Request ids 0, 1 and 2^63.
CodecIDs ==
    {<<0, 0, 0, 0, 0, 0, 0, 0>>, <<0, 0, 0, 0, 0, 0, 0, 1>>, <<128, 0, 0, 0, 0, 0, 0, 0>>}

\* Payloads: none; null; the integers 1 and 0; a request "2", "a", "", "m" without
\* arguments and attachments; one with an argument and the attachments {"k": "v"}; a
\* request cut inside its path; a request whose argument types are null.
CodecPayloads ==
    {<<>>,
     <<78>>,
     <<145>>,
     <<144>>,
     <<1, 50, 1, 97, 0, 1, 109, 0, 78>>,
     <<1, 50, 1, 97, 0, 1, 109, 1, 73, 145, 72, 1, 107, 1, 118, 90>>,
     <<1, 50, 2, 97>>,
     <<1, 50, 1, 97, 0, 1, 109, 78, 78>>}

\* A frame: magic, flag, status 20, id, data length, payload.
CodecFrame(flag, id, payload) ==
    DUBBO_MAGIC_TAG \o <<flag, 20>> \o id \o <<0, 0, 0, Len(payload)>> \o payload

\* Stream ids, as GetStreamID returns them: 0, 1, 256, 2^31, 2^63 - 1, 2^63, 2^64 - 1.
CodecStreamIDs ==
    {<<0>>, <<1>>, <<2, 5, 6>>, <<2, 1, 4, 7, 4, 8, 3, 6, 4, 8>>,
     <<9, 2, 2, 3, 3, 7, 2, 0, 3, 6, 8, 5, 4, 7, 7, 5, 8, 0, 7>>,
     <<9, 2, 2, 3, 3, 7, 2, 0, 3, 6, 8, 5, 4, 7, 7, 5, 8, 0, 8>>,
     <<1, 8, 4, 4, 6, 7, 4, 4, 0, 7, 3, 7, 0, 9, 5, 5, 1, 6, 1, 5>>}

CDStart ==
    /\ codecData \in {CodecFrame(flag, id, payload) :
                        flag \in CodecFlags, id \in CodecIDs, payload \in CodecPayloads}
    /\ codecCall = NoCodecCall

\* SetStreamID writes into the buffer it is handed; GetStreamID then reads the id back.
CodecSetStreamID(streamID) ==
    /\ codecData' = SetStreamID(codecData, streamID)
    /\ codecCall' = [op |-> "SetStreamID", arg |-> streamID, status |-> "returned",
                     ret |-> GetStreamID(codecData')]
    /\ CDFrame

\* Dispatch asks the codec for the routing headers of the frame.
CodecGetMetas ==
    /\ LET m == GetMetas(codecData)
       IN  codecCall' = [op |-> "GetMetas", arg |-> <<>>, status |-> m.status, ret |-> m]
    /\ UNCHANGED codecData
    /\ CDFrame

CDNext ==
    \/ \E streamID \in CodecStreamIDs : CodecSetStreamID(streamID)
    \/ CodecGetMetas

InitCodec == KAIdle /\ LBIdle /\ RCIdle /\ STIdle /\ ExtIdle /\ FGIdle /\ SWIdle /\ FIIdle /\ CDStart

SpecCodec == InitCodec /\ [][CDNext]_vars

\* ---- properties of the codec ----

\* The flag byte and the payload length of the frame with the codec.
CodecFlag == codecData[DUBBO_FLAG_IDX + 1]

CodecBodyLen == Len(codecData) - DUBBO_HEADER_LEN

\* C33: for every valid frame f and every id s that GetStreamID can return (the decimal
\* form of a 64-bit unsigned request id), GetStreamID(SetStreamID(f, s)) = s.
C33_StreamIDRoundTrip ==
    codecCall.op = "SetStreamID" => codecCall.ret = codecCall.arg

\* The id 2^63 - 1 has been set and read back.
C33_LargestSignedSet ==
    /\ codecCall.op = "SetStreamID"
    /\ Len(codecCall.arg) = 19
    /\ codecCall.ret = codecCall.arg

\* C34: GetMetas of a valid frame whose event bit is set reports a heartbeat (the
\* heartbeat header is "dubbo"), whatever the length of the payload, 0 included.
C34_EventBitIsHeartbeat ==
    (codecCall.op = "GetMetas" /\ getEventPing(CodecFlag)) =>
        /\ codecCall.status = "returned"
        /\ ~codecCall.ret.nil
        /\ HeaderXprotocolHeartbeat \in DOMAIN codecCall.ret.named
        /\ codecCall.ret.named[HeaderXprotocolHeartbeat] = XPROTOCOL_PLUGIN_DUBBO

\* A frame with the event bit and a payload has been reported as a heartbeat.
C34_HeartbeatWithPayload ==
    /\ codecCall.op = "GetMetas"
    /\ getEventPing(CodecFlag)
    /\ CodecBodyLen > 0
    /\ ~codecCall.ret.nil
    /\ HeaderXprotocolHeartbeat \in DOMAIN codecCall.ret.named

\* C35: GetMetas returns normally for every valid frame; for a request whose
\* serialization id is not hessian or whose payload cannot be decoded, it returns a
\* result without routing metadata.
C35_GetMetasReturns ==
    codecCall.op = "GetMetas" =>
        /\ codecCall.status = "returned"
        /\ (isReqFrame(CodecFlag) /\ ~getEventPing(CodecFlag)
              /\ unSerialize(getSerializeId(CodecFlag),
                             SliceFrom(codecData, DUBBO_HEADER_LEN)).nil) =>
                "serviceName" \notin DOMAIN codecCall.ret.named

\* GetMetas has returned the routing metadata and the attachments of a hessian request.
C35_RequestDecoded ==
    /\ codecCall.op = "GetMetas"
    /\ codecCall.status = "returned"
    /\ ~codecCall.ret.nil
    /\ "serviceName" \in DOMAIN codecCall.ret.named
    /\ codecCall.ret.attachments # EmptyMap

(***************************************************************************)
(*                    FAULT INJECTOR: OnData AND ITS DELAY                 *)
(***************************************************************************)

\* The read loop of the connection calls OnData, one call at a time.  It is at "try"
\* (entering tryInjectDelay), at "swap" (before the compare-and-swap) or at "load" (before
\* the load in OnData).  The goroutine of delay d is "waiting" on time.After, has
\* "stored" 0 into fi.delaying, or is "done".

FIFrame == UNCHANGED <<kaVars, lbVars, rcVars, stVars, extVars, fgVars, swVars, cdVars>>

\* OnData is called up to MaxData times.
MaxData == 3

Delays == 1..MaxData

\* NewFaultInjector(config), InitializeReadFilterCallbacks(cb)
FIStart ==
    /\ fiConf \in [delayPercent : {0, 50, 100}, delayDuration : {0, 10}]
    /\ delaying = 0
    /\ fiPC = "idle"
    /\ fiTimer = [d \in Delays |-> "none"]
    /\ fiDelay = 0
    /\ fiStopped = {}
    /\ fiContinued = {}
    /\ fiCalls = 0

\* getDelayDuration(): the durations it may return; rand.Intn(100) is any of 0..99.
getDelayDuration ==
    IF fiConf.delayPercent = 0
    THEN {0}
    ELSE {IF n + 1 > fiConf.delayPercent THEN 0 ELSE fiConf.delayDuration : n \in 0..99}

\* The read loop calls OnData.
OnData ==
    /\ fiPC = "idle"
    /\ fiCalls < MaxData
    /\ fiPC' = "try"
    /\ fiCalls' = fiCalls + 1
    /\ UNCHANGED <<fiConf, delaying, fiTimer, fiDelay, fiStopped, fiContinued>>
    /\ FIFrame

\* tryInjectDelay up to the compare-and-swap: the load of fi.delaying and the duration.
tryInjectDelay ==
    /\ fiPC = "try"
    /\ IF delaying > 0
       THEN fiPC' = "load"
       ELSE \E duration \in getDelayDuration :
              fiPC' = IF duration > 0 THEN "swap" ELSE "load"
    /\ UNCHANGED <<fiConf, delaying, fiTimer, fiDelay, fiStopped, fiContinued, fiCalls>>
    /\ FIFrame

\* atomic.CompareAndSwapUint32(&fi.delaying, 0, 1) and, when it swapped, the start of the
\* goroutine.
StartDelay ==
    /\ fiPC = "swap"
    /\ IF delaying = 0
       THEN /\ delaying' = 1
            /\ fiDelay' = fiDelay + 1
            /\ fiTimer' = [fiTimer EXCEPT ![fiDelay + 1] = "waiting"]
       ELSE UNCHANGED <<delaying, fiDelay, fiTimer>>
    /\ fiPC' = "load"
    /\ UNCHANGED <<fiConf, fiStopped, fiContinued, fiCalls>>
    /\ FIFrame

\* OnData after tryInjectDelay: Stop while fi.delaying is set, Continue otherwise.
OnDataReturn ==
    /\ fiPC = "load"
    /\ fiStopped' = IF delaying > 0 THEN fiStopped \cup {fiDelay} ELSE fiStopped
    /\ fiPC' = "idle"
    /\ UNCHANGED <<fiConf, delaying, fiTimer, fiDelay, fiContinued, fiCalls>>
    /\ FIFrame

\* Where the goroutine is after atomic.StoreUint32(&fi.delaying, 0).
AfterStoreDone == "done"

AfterStore == "stored"

\* The delay d elapses: `case <-time.After(...)`, atomic.StoreUint32(&fi.delaying, 0).
DelayElapsed(d) ==
    /\ fiTimer[d] = "waiting"
    /\ delaying' = 0
    /\ fiTimer' = [fiTimer EXCEPT ![d] = AfterStore]
    /\ UNCHANGED <<fiConf, fiPC, fiDelay, fiStopped, fiContinued, fiCalls>>
    /\ FIFrame

\* fi.readCallbacks.ContinueReading(), by the goroutine of delay d.
ContinueReading(d) ==
    /\ fiTimer[d] = "stored"
    /\ fiContinued' = fiContinued \cup {d}
    /\ fiTimer' = [fiTimer EXCEPT ![d] = "done"]
    /\ UNCHANGED <<fiConf, delaying, fiPC, fiDelay, fiStopped, fiCalls>>
    /\ FIFrame

FINext ==
    \/ OnData
    \/ tryInjectDelay
    \/ StartDelay
    \/ OnDataReturn
    \/ \E d \in Delays : DelayElapsed(d)
    \/ \E d \in Delays : ContinueReading(d)

InitFault == KAIdle /\ LBIdle /\ RCIdle /\ STIdle /\ ExtIdle /\ FGIdle /\ SWIdle /\ CDIdle /\ FIStart

\* A started goroutine runs: its timer fires and it goes on to its end.
SpecFault ==
    /\ InitFault
    /\ [][FINext]_vars
    /\ \A d \in Delays : WF_vars(DelayElapsed(d)) /\ WF_vars(ContinueReading(d))

\* C36: whenever OnData returns Stop because delay d is in progress, the goroutine of
\* that delay has not yet stored 0, and ContinueReading is called once the delay has
\* elapsed, under every interleaving of OnData with the goroutine of the delay.
C36_StopLeadsToContinueReading ==
    /\ [][\A d \in Delays :
            (d \notin fiStopped /\ d \in fiStopped') => fiTimer[d] = "waiting"]_vars
    /\ \A d \in Delays : (d \in fiStopped) ~> (d \in fiContinued)

\* Two OnData calls have returned Stop, the second during the delay the first started,
\* and ContinueReading has been called for that delay.
C36_Witness ==
    /\ fiCalls >= 2
    /\ fiDelay = 1
    /\ fiPC = "idle"
    /\ 1 \in fiStopped
    /\ 1 \in fiContinued

(***************************************************************************)
(* FEATURE GATES (pkg/featuregate/feature_gate.go)                         *)
(***************************************************************************)
FGFrame ==
    UNCHANGED <<kaVars, lbVars, rcVars, stVars, extVars, swVars, cdVars, fiVars>>

allAlphaGate == "AllAlpha"

Alpha == "ALPHA"

Beta == "BETA"

GA == ""

FeatureSpec(default, lock, pre, init) ==
    [Default |-> default, LockToDefault |-> lock, PreRelease |-> pre, InitFunc |-> init]

\* The generic features.
defaultFeatures == [k \in {allAlphaGate} |-> FeatureSpec(FALSE, FALSE, Alpha, "nil")]

\* The features the gates are given: an alpha feature whose InitFunc runs to its end by
\* itself, and a beta feature enabled by default, either with an InitFunc that subscribes to
\* the alpha feature on the original gate and waits for its channel to be closed, or locked
\* to its default and without InitFunc.
Features == {"TestAlpha", "TestBeta"}

FeatureSpecs(k) ==
    IF k = "TestAlpha" THEN {FeatureSpec(FALSE, FALSE, Alpha, "set")}
    ELSE {FeatureSpec(TRUE, FALSE, Beta, "wait"), FeatureSpec(TRUE, TRUE, Beta, "nil")}

\* The feature the InitFunc "wait" subscribes to, and the gate it subscribes on.
WaitsFor == "TestAlpha"

TestDataMutableFeatureGate == "orig"

Keys(m) == DOMAIN m

\* setUnsetAlphaGates: every alpha feature without a value of its own gets val.
setUnsetAlphaGates(kn, en, val) ==
    [k \in Keys(en) \cup {x \in Keys(kn) : kn[x].PreRelease = Alpha} |->
        IF k \in Keys(en) THEN en[k] ELSE val]

\* Special handling for a few gates.
specialFeatures == {allAlphaGate}

\* NewFeatureGate(): the generic features are known, nothing else is set.
NewFeatureGate ==
    [known |-> defaultFeatures, enabled |-> EmptyMap, ready |-> EmptyMap,
     broadcasters |-> EmptyMap, info |-> EmptyMap]

\* Enabled returns true if the key is enabled.
Enabled(g, key) ==
    IF key \in Keys(enabled[g]) THEN enabled[g][key]
    ELSE IF key \in Keys(known[g]) THEN known[g][key].Default
    ELSE FALSE

\* IsReady returns true if the feature is ready.
IsReady(g, key) == IF key \in Keys(ready[g]) THEN ready[g][key] ELSE FALSE

\* KnownFeatures: the description of every known feature that is not GA; the sorted slice
\* is held as the set of its elements.
KnownFeatures(g) ==
    {<<k, known[g][k].PreRelease, known[g][k].Default>> :
        k \in {x \in Keys(known[g]) : known[g][x].PreRelease # GA}}

\* strconv.ParseBool
ParseBool(v) ==
    IF v \in {"1", "t", "T", "TRUE", "true", "True"} THEN [ok |-> TRUE, b |-> TRUE]
    ELSE IF v \in {"0", "f", "F", "FALSE", "false", "False"} THEN [ok |-> TRUE, b |-> FALSE]
    ELSE [ok |-> FALSE, b |-> FALSE]

\* The loop of Set over the items of the value.  An item is what SplitN(s, "=", 2) gives
\* for it, with the blanks trimmed: <<>> for an empty item, <<k>> for an item without "=".
RECURSIVE SetLoop(_, _, _)
SetLoop(items, i, m) ==
    IF i > Len(items) THEN [err |-> "", m |-> m]
    ELSE LET arr == items[i] IN
         IF Len(arr) = 0 THEN SetLoop(items, i + 1, m)
         ELSE IF Len(arr) # 2 THEN [err |-> "missing bool value", m |-> m]
         ELSE IF ~ParseBool(arr[2]).ok THEN [err |-> "invalid value", m |-> m]
         ELSE SetLoop(items, i + 1, Put(m, arr[1], ParseBool(arr[2]).b))

\* The loop of SetFromMap over the map m, visited in the given order, on the copies of
\* known and enabled; stored counts the keys whose value it has put into its copy.
RECURSIVE SetFromMapLoop(_, _, _, _, _)
SetFromMapLoop(kn, en, m, order, i) ==
    IF i > Len(order) THEN [err |-> "", enabled |-> en, stored |-> i - 1]
    ELSE LET k == order[i]
             v == m[k]
         IN  IF k \notin Keys(kn) THEN [err |-> "unrecognized feature gate", enabled |-> en, stored |-> i - 1]
             ELSE IF kn[k].LockToDefault /\ kn[k].Default # v
                  THEN [err |-> "feature is locked", enabled |-> en, stored |-> i - 1]
             ELSE LET set == Put(en, k, v)
                      special == IF k \in specialFeatures
                                 THEN setUnsetAlphaGates(kn, set, v) ELSE set
                  IN  SetFromMapLoop(kn, special, m, order, i + 1)

\* The orders a range over the map m can take.
Orders(m) ==
    {o \in [1..Cardinality(Keys(m)) -> Keys(m)] : \A i, j \in DOMAIN o : i # j => o[i] # o[j]}

PersistAlways(r, old) == r.enabled
\* Persist changes: the copies are stored only when the loop has met no error.
Persist(r, old) == IF r.err = "" THEN r.enabled ELSE old

FGIdleRun == fgInit.pc = "idle" /\ ~fgPanic

\* SetFromMap stores flag gates for known features from a map or returns an error.
SetFromMapCall(g, m, order, op) ==
    LET r == SetFromMapLoop(known[g], enabled[g], m, order, 1) IN
    /\ enabled' = [enabled EXCEPT ![g] = Persist(r, enabled[g])]
    /\ info' = [info EXCEPT ![g] = Persist(r, info[g])]
    /\ fgLast' = [op |-> op, gate |-> g, key |-> "", err |-> r.err,
                  stored |-> {order[i] : i \in 1..r.stored}]
    /\ fgOwn' = IF r.err # "" THEN fgOwn
                ELSE [fgOwn EXCEPT ![g] = [k \in Keys(fgOwn[g]) \cup Keys(m) |->
                                              IF k \in Keys(m) THEN m[k] ELSE fgOwn[g][k]]]
    /\ UNCHANGED <<fgLive, known, ready, broadcasters, fgChan, fgInit, fgRan, fgPanic>>
    /\ FGFrame

SetFromMap(g, m) ==
    /\ FGIdleRun
    /\ g \in fgLive
    /\ \E order \in Orders(m) : SetFromMapCall(g, m, order, "SetFromMap")

\* Set parses "key1=value1,key2=value2,..." into a map and stores it with SetFromMap.
Set(g, value) ==
    /\ FGIdleRun
    /\ g \in fgLive
    /\ LET p == SetLoop(value, 1, EmptyMap) IN
       IF p.err # ""
       THEN /\ fgLast' = [op |-> "Set", gate |-> g, key |-> "", err |-> p.err, stored |-> {}]
            /\ UNCHANGED <<fgLive, known, enabled, ready, broadcasters, info, fgChan,
                           fgInit, fgRan, fgPanic, fgOwn>>
            /\ FGFrame
       ELSE \E order \in Orders(p.m) : SetFromMapCall(g, p.m, order, "Set")

\* reflect.DeepEqual of two specs: func values are deeply equal only if both are nil.
DeepEqual(a, b) == a = b /\ a.InitFunc = "nil"

\* Add (through AddFeatureSpec) adds the feature name with the given spec.
AddFeatureSpec(g, name, spec) ==
    /\ FGIdleRun
    /\ g \in fgLive
    /\ LET found == name \in Keys(known[g])
           err == IF found /\ ~DeepEqual(known[g][name], spec)
                  THEN "different spec already exists" ELSE ""
           fresh == [notified |-> FALSE, once |-> FALSE, channel |-> <<g, name>>]
       IN  /\ fgLast' = [op |-> "Add", gate |-> g, key |-> name, err |-> err, stored |-> {}]
           /\ IF err = "" /\ ~found
              THEN /\ known' = [known EXCEPT ![g] = Put(known[g], name, spec)]
                   /\ broadcasters' =
                        IF name \in Keys(broadcasters[g]) THEN broadcasters
                        ELSE [broadcasters EXCEPT ![g] = Put(broadcasters[g], name, fresh)]
              ELSE UNCHANGED <<known, broadcasters>>
    /\ UNCHANGED <<fgLive, enabled, ready, info, fgChan, fgInit, fgRan, fgPanic, fgOwn>>
    /\ FGFrame

\* DeepCopy builds the gate "copy" from the gate f.  The loop over f.ready stores its
\* entries into the copy's enabled map and leaves the copy's ready map empty; the copied
\* broadcasters keep the channel of the original and get a new sync.Once.
DeepCopy(f) ==
    /\ FGIdleRun
    /\ f = "orig"
    /\ fgLive = {"orig"}
    /\ LET withReady == [k \in Keys(enabled[f]) \cup Keys(ready[f]) |->
                            IF k \in Keys(ready[f]) THEN ready[f][k] ELSE enabled[f][k]]
           copied == [k \in Keys(broadcasters[f]) |->
                        [notified |-> broadcasters[f][k].notified, once |-> FALSE,
                         channel |-> broadcasters[f][k].channel]]
       IN  /\ known' = [known EXCEPT !["copy"] = known[f]]
           /\ enabled' = [enabled EXCEPT !["copy"] = withReady]
           /\ ready' = [ready EXCEPT !["copy"] = EmptyMap]
           /\ broadcasters' = [broadcasters EXCEPT !["copy"] = copied]
           /\ info' = [info EXCEPT !["copy"] = EmptyMap]
    /\ fgLive' = {"orig", "copy"}
    /\ fgLast' = [op |-> "DeepCopy", gate |-> f, key |-> "", err |-> "", stored |-> {}]
    /\ fgOwn' = [fgOwn EXCEPT !["copy"] = fgOwn[f]]
    /\ UNCHANGED <<fgChan, fgInit, fgRan, fgPanic>>
    /\ FGFrame

NotifiedNever(b) == FALSE
\* b.notified
Notified(b) == b.notified

\* updateToReady(key) on the gate f: the error it returns ("panic" when close(b.channel)
\* finds the channel closed) and what it leaves in f.broadcasters, f.ready and the channels.
updateToReady(f, key) ==
    LET same == [err |-> "", broadcasters |-> broadcasters[f], ready |-> ready[f],
                 chan |-> fgChan]
    IN  IF key \notin Keys(known[f]) THEN [same EXCEPT !.err = "feature is unknown"]
        ELSE IF ~Enabled(f, key) THEN [same EXCEPT !.err = "feature is disabled"]
        ELSE IF key \notin Keys(broadcasters[f])
             THEN [same EXCEPT !.err = "unrecognized feature gate"]
        ELSE LET b == broadcasters[f][key] IN
             IF Notified(b) THEN [same EXCEPT !.err = "repeat setting"]
             ELSE LET done == [b EXCEPT !.notified = TRUE, !.once = TRUE]
                      closes == ~b.once
                  IN  IF closes /\ b.channel \in fgChan
                      THEN [same EXCEPT !.err = "panic",
                                        !.broadcasters = Put(broadcasters[f], key, done)]
                      ELSE [err |-> "",
                            broadcasters |-> Put(broadcasters[f], key, done),
                            ready |-> Put(ready[f], key, TRUE),
                            chan |-> IF closes THEN fgChan \cup {b.channel} ELSE fgChan]

\* The effect of a call of updateToReady on the variables.
UpdateToReadyEffect(f, key) ==
    LET r == updateToReady(f, key) IN
    /\ broadcasters' = [broadcasters EXCEPT ![f] = r.broadcasters]
    /\ ready' = [ready EXCEPT ![f] = r.ready]
    /\ fgChan' = r.chan
    /\ fgPanic' = (r.err = "panic")
    /\ fgLast' = [op |-> "updateToReady", gate |-> f, key |-> key, err |-> r.err, stored |-> {}]

\* A direct call of updateToReady, as the package's tests make it.
UpdateToReady(f, key) ==
    /\ FGIdleRun
    /\ f \in fgLive
    /\ UpdateToReadyEffect(f, key)
    /\ UNCHANGED <<fgLive, known, enabled, info, fgInit, fgRan, fgOwn>>
    /\ FGFrame

\* Subscribe returns the channel of the feature: its error and the channel (<<>> for nil).
Subscribe(f, key) ==
    IF key \notin Keys(known[f]) THEN [err |-> "feature is unknown", channel |-> <<>>]
    ELSE IF key \in Keys(broadcasters[f])
         THEN [err |-> "", channel |-> broadcasters[f][key].channel]
    ELSE [err |-> "subscribe fails", channel |-> <<>>]

\* StartInit, up to w.Wait(): one goroutine for every entry of f.enabled that is true, each
\* with the spec that f.known holds for its key.
StartInit(f) ==
    /\ FGIdleRun
    /\ f \in fgLive
    /\ LET keys == {k \in Keys(enabled[f]) : enabled[f][k]}
           fn == [k \in keys |-> IF k \in Keys(known[f]) THEN known[f][k].InitFunc ELSE "nil"]
       IN  fgInit' = [pc |-> "running", gate |-> f, fn |-> fn,
                      task |-> [k \in keys |-> IF fn[k] = "nil" THEN "update" ELSE "init"]]
    /\ fgLast' = NoGateCall
    /\ UNCHANGED <<fgLive, known, enabled, ready, broadcasters, info, fgChan, fgRan,
                   fgPanic, fgOwn>>
    /\ FGFrame

FGRunning == fgInit.pc = "running" /\ ~fgPanic

\* The goroutine of key runs spec.InitFunc(): to its end, or up to the receive from the
\* channel that Subscribe has returned (a nil channel when Subscribe has failed).
InitFuncStart(k) ==
    /\ FGRunning
    /\ k \in Keys(fgInit.task)
    /\ fgInit.task[k] = "init"
    /\ LET sub == Subscribe(TestDataMutableFeatureGate, WaitsFor)
           to == IF fgInit.fn[k] = "set" THEN "update"
                 ELSE IF sub.err = "" THEN "wait" ELSE "blocked"
       IN  /\ fgInit' = [fgInit EXCEPT !.task[k] = to]
           /\ fgRan' = IF to = "update" THEN fgRan \cup {<<fgInit.gate, k>>} ELSE fgRan
    /\ fgLast' = NoGateCall
    /\ UNCHANGED <<fgLive, known, enabled, ready, broadcasters, info, fgChan, fgPanic, fgOwn>>
    /\ FGFrame

\* The receive returns once the channel is and the InitFunc runs to its end.
InitFuncWake(k) ==
    /\ FGRunning
    /\ k \in Keys(fgInit.task)
    /\ fgInit.task[k] = "wait"
    /\ Subscribe(TestDataMutableFeatureGate, WaitsFor).channel \in fgChan
    /\ fgInit' = [fgInit EXCEPT !.task[k] = "update"]
    /\ fgRan' = fgRan \cup {<<fgInit.gate, k>>}
    /\ fgLast' = NoGateCall
    /\ UNCHANGED <<fgLive, known, enabled, ready, broadcasters, info, fgChan, fgPanic, fgOwn>>
    /\ FGFrame

\* The goroutine of key calls f.updateToReady(k), drops its result and calls wg.Done().
GoUpdateToReady(k) ==
    /\ FGRunning
    /\ k \in Keys(fgInit.task)
    /\ fgInit.task[k] = "update"
    /\ UpdateToReadyEffect(fgInit.gate, k)
    /\ fgInit' = [fgInit EXCEPT !.task[k] = "done"]
    /\ UNCHANGED <<fgLive, known, enabled, info, fgRan, fgOwn>>
    /\ FGFrame

\* w.Wait() returns when every goroutine has called wg.Done(), and StartInit returns nil.
StartInitReturn ==
    /\ FGRunning
    /\ \A k \in Keys(fgInit.task) : fgInit.task[k] = "done"
    /\ fgInit' = NoInit
    /\ fgLast' = [op |-> "StartInit", gate |-> fgInit.gate, key |-> "", err |-> "", stored |-> {}]
    /\ UNCHANGED <<fgLive, known, enabled, ready, broadcasters, info, fgChan, fgRan,
                   fgPanic, fgOwn>>
    /\ FGFrame

\* The keys the callers name: the known features and an unknown one.
MapKeys == {allAlphaGate, "fooBarBaz"} \cup Features

\* The items of a flag value: good and bad bool values, an item without "=", an empty item.
SetItems ==
    {<<k, v>> : k \in {allAlphaGate, "TestAlpha"}, v \in {"true", "false"}}
        \cup {<<"TestBeta", "true">>, <<"TestBeta", "0">>, <<"fooBarBaz", "true">>,
              <<allAlphaGate, "banana">>, <<"TestAlpha">>, <<>>}

\* Flag values of up to two items, and maps of up to two entries.
SetValues == UNION {[1..n -> SetItems] : n \in 0..2}

SetMaps == UNION {[ks -> BOOLEAN] : ks \in {x \in SUBSET MapKeys : Cardinality(x) <= 2}}

\* The gate g as NewFeatureGate and then Add with the given specs leave it.
Built(g, specs) ==
    [known |-> [k \in Keys(NewFeatureGate.known) \cup Keys(specs) |->
                    IF k \in Keys(specs) THEN specs[k] ELSE NewFeatureGate.known[k]],
     broadcasters |-> [k \in Keys(specs) |->
                          [notified |-> FALSE, once |-> FALSE, channel |-> <<g, k>>]]]

\* The original gate has been built and the given features have been added to it.
FGStart(specs) ==
    /\ fgLive = {"orig"}
    /\ known = [g \in Gates |-> IF g = "orig" THEN Built(g, specs).known ELSE EmptyMap]
    /\ enabled = [g \in Gates |-> NewFeatureGate.enabled]
    /\ ready = [g \in Gates |-> NewFeatureGate.ready]
    /\ broadcasters =
         [g \in Gates |-> IF g = "orig" THEN Built(g, specs).broadcasters ELSE EmptyMap]
    /\ info = [g \in Gates |-> NewFeatureGate.info]
    /\ fgChan = {}
    /\ fgInit = NoInit
    /\ fgRan = {}
    /\ fgPanic = FALSE
    /\ fgLast = NoGateCall
    /\ fgOwn = [g \in Gates |-> EmptyMap]

\* The calls on the gates, with flag values and maps from the given sets, and the steps of
\* the goroutines of StartInit.
FGCalls(values, maps) ==
    \/ \E g \in Gates, value \in values : Set(g, value)
    \/ \E g \in Gates, m \in maps : SetFromMap(g, m)
    \/ \E g \in Gates, name \in Features : \E spec \in FeatureSpecs(name) :
            AddFeatureSpec(g, name, spec)
    \/ \E g \in Gates, key \in MapKeys : UpdateToReady(g, key)
    \/ \E g \in Gates : StartInit(g)
    \/ \E k \in MapKeys : InitFuncStart(k)
    \/ \E k \in MapKeys : InitFuncWake(k)
    \/ \E k \in MapKeys : GoUpdateToReady(k)
    \/ StartInitReturn

\* The package has added its alpha feature to the gate before any other call is made.
PackageFeatures ==
    [k \in {"TestAlpha"} |-> FeatureSpec(FALSE, FALSE, Alpha, "set")]

\* One gate.
FGNext == FGCalls(SetValues, SetMaps)

InitGate ==
    KAIdle /\ LBIdle /\ RCIdle /\ STIdle /\ ExtIdle /\ SWIdle /\ RestIdle
    /\ FGStart(PackageFeatures)

SpecGate == InitGate /\ [][FGNext]_vars

\* A gate and its deep copy; the flag values and maps switch single features.
CopyValues == {<<<<"TestAlpha", "true">>>>, <<<<"TestAlpha", "false">>>>}

CopyMaps == {[k \in {"TestBeta"} |-> FALSE]}

FGCopyNext ==
    \/ \E g \in Gates : DeepCopy(g)
    \/ FGCalls(CopyValues, CopyMaps)

InitGateCopy ==
    KAIdle /\ LBIdle /\ RCIdle /\ STIdle /\ ExtIdle /\ SWIdle /\ RestIdle
    /\ FGStart(PackageFeatures)

SpecGateCopy == InitGateCopy /\ [][FGCopyNext]_vars

\* A call of updateToReady(key) on the gate f returns in this step: a direct call, or the
\* call of a goroutine of StartInit.
UpdateStep(f, key) == UpdateToReady(f, key) \/ (fgInit.gate = f /\ GoUpdateToReady(key))

\* The step leaves the readiness state of every gate and every channel as it was.
ReadinessKept == UNCHANGED <<known, enabled, ready, broadcasters, fgChan>>

\* C21 as stated: a call of updateToReady that returns nil closes the channel of the feature,
\* which was open, and makes IsReady true; every call for a feature that is ready on the
\* gate returns the error "repeat setting" and changes nothing.
C21_LaterCallRepeats ==
    [][\A f \in Gates, key \in MapKeys :
         UpdateStep(f, key) =>
            /\ fgLast'.err = "" =>
                 /\ ~IsReady(f, key) /\ IsReady(f, key)'
                 /\ Subscribe(f, key).channel \notin fgChan
                 /\ fgChan' = fgChan \cup {Subscribe(f, key).channel}
            /\ IsReady(f, key) => fgLast'.err = "repeat setting" /\ ReadinessKept]_vars

\* C21, amended: a call of updateToReady that returns nil closes the channel of the feature,
\* which was open, and makes IsReady true; every call for a feature that is ready on the
\* gate returns an error and changes nothing: "repeat setting" while the feature is
\* enabled, "feature is disabled" once it has been disabled.
C21_ClosesOnce ==
    [][\A f \in Gates, key \in MapKeys :
         UpdateStep(f, key) =>
            /\ fgLast'.err = "" =>
                 /\ ~IsReady(f, key) /\ IsReady(f, key)'
                 /\ Subscribe(f, key).channel \notin fgChan
                 /\ fgChan' = fgChan \cup {Subscribe(f, key).channel}
            /\ IsReady(f, key) =>
                 /\ fgLast'.err = IF Enabled(f, key) THEN "repeat setting"
                                  ELSE "feature is disabled"
                 /\ ReadinessKept]_vars

\* A second call for a ready feature has returned "repeat setting" and the channel of the
\* feature is closed.
C21_Witness ==
    /\ fgLast.op = "updateToReady"
    /\ fgLast.err = "repeat setting"
    /\ IsReady(fgLast.gate, fgLast.key)
    /\ Subscribe(fgLast.gate, fgLast.key).channel \in fgChan

\* A call for a feature that was disabled after it became ready has returned "disabled".
C21_DisabledAfterReady ==
    /\ fgLast.op = "updateToReady"
    /\ fgLast.err = "feature is disabled"
    /\ IsReady(fgLast.gate, fgLast.key)

\* C22: on every gate, the channel Subscribe(key) returns is closed if and only if the
\* feature is ready on that gate.
C22_ClosedIffReady ==
    \A f \in fgLive, key \in MapKeys :
        Subscribe(f, key).err = "" =>
            (Subscribe(f, key).channel \in fgChan <=> IsReady(f, key))

\* The channel the original gate hands out is closed while the feature is not ready on the
\* original: the copy has closed it.
C22_ClosedByCopy ==
    /\ fgLast.op = "updateToReady" /\ fgLast.gate = "copy" /\ fgLast.err = ""
    /\ Subscribe("orig", fgLast.key).channel \in fgChan
    /\ ~IsReady("orig", fgLast.key)

\* C23: a Set or SetFromMap call that returns an error leaves Enabled(k) as it was for
\* every feature k, on every gate.
C23_FailedSetChangesNothing ==
    [][fgLast'.op \in {"Set", "SetFromMap"} /\ fgLast'.err # "" =>
          \A g \in Gates, k \in MapKeys : Enabled(g, k)' = Enabled(g, k)]_vars

\* A call has failed on one key after its loop had stored a value for another key, whose
\* Enabled differs from that value.
C23_Witness ==
    /\ fgLast.op \in {"Set", "SetFromMap"}
    /\ fgLast.err \in {"unrecognized feature gate", "feature is locked"}
    /\ "TestAlpha" \in fgLast.stored
    /\ ~Enabled(fgLast.gate, "TestAlpha")

\* The alpha features of the gate g other than the toggle itself.
AlphaFeatures(g) == {k \in Keys(known[g]) \ {allAlphaGate} : known[g][k].PreRelease = Alpha}

\* C24: an alpha feature that was set by its own key has Enabled equal to its most recent
\* own value, and an alpha feature never set by its own key has Enabled equal to the most
\* recent AllAlpha value.
C24_AllAlphaToggle ==
    \A k \in AlphaFeatures("orig") :
        IF k \in Keys(fgOwn["orig"]) THEN Enabled("orig", k) = fgOwn["orig"][k]
        ELSE allAlphaGate \in Keys(fgOwn["orig"]) =>
                Enabled("orig", k) = fgOwn["orig"][allAlphaGate]

\* AllAlpha was set to true and then to false, and the alpha feature is still enabled.
C24_ToggleStuck ==
    /\ "TestAlpha" \notin Keys(fgOwn["orig"])
    /\ allAlphaGate \in Keys(fgOwn["orig"])
    /\ ~fgOwn["orig"][allAlphaGate]
    /\ Enabled("orig", "TestAlpha")

\* A call on the copy returns in this step, or a goroutine of the copy's StartInit moves.
CopyStep ==
    \/ fgLast'.gate = "copy" /\ fgLast'.op # "none"
    \/ fgInit.gate = "copy" /\ fgInit.pc = "running"
    \/ fgInit'.gate = "copy" /\ fgInit'.pc = "running"

\* C25: an operation on the copy leaves what the original reports through Enabled, IsReady
\* and KnownFeatures as it was, closes no channel the original's Subscribe hands out, and
\* makes no later operation on the original panic.
C25_CopyLeavesOriginal ==
    [][/\ CopyStep =>
            /\ \A k \in MapKeys : /\ Enabled("orig", k)' = Enabled("orig", k)
                                  /\ IsReady("orig", k)' = IsReady("orig", k)
            /\ KnownFeatures("orig")' = KnownFeatures("orig")
            /\ \A k \in Keys(broadcasters["orig"]) :
                  Subscribe("orig", k).channel \in fgChan' =>
                      Subscribe("orig", k).channel \in fgChan
       /\ fgLast'.gate = "orig" => fgLast'.err # "panic"]_vars

\* updateToReady on the original has panicked on the channel the copy had closed.
C25_OriginalPanics ==
    /\ fgPanic
    /\ fgLast.gate = "orig"
    /\ fgLast.err = "panic"
    /\ IsReady("copy", fgLast.key)

\* C37: right after DeepCopy the copy reports what the original reports: Enabled(k) and
\* IsReady(k) of the copy equal those of the original for every feature k, ready
\* features and features disabled after they became ready included.
C37_CopyReportsSame ==
    fgLast.op = "DeepCopy" =>
        \A k \in MapKeys :
            /\ Enabled("copy", k) = Enabled(fgLast.gate, k)
            /\ IsReady("copy", k) = IsReady(fgLast.gate, k)

\* A gate none of whose features is ready has been copied, and the copy reports the same.
C37_SameWithoutReady ==
    /\ fgLast.op = "DeepCopy"
    /\ ready[fgLast.gate] = EmptyMap
    /\ \E k \in MapKeys : Enabled("copy", k)
    /\ \A k \in MapKeys :
         /\ Enabled("copy", k) = Enabled(fgLast.gate, k)
         /\ IsReady("copy", k) = IsReady(fgLast.gate, k)

\* C26: when StartInit has returned, every feature for which Enabled is true is ready and
\* its InitFunc, if it has one, has been run.
C26_StartInitReadiesEnabled ==
    fgLast.op = "StartInit" =>
        \A k \in Keys(known[fgLast.gate]) :
            Enabled(fgLast.gate, k) =>
                /\ IsReady(fgLast.gate, k)
                /\ known[fgLast.gate][k].InitFunc # "nil" => <<fgLast.gate, k>> \in fgRan

\* StartInit has returned and the beta feature, enabled by its default only, has neither
\* been initialised nor become ready.
C26_DefaultEnabledSkipped ==
    /\ fgLast.op = "StartInit"
    /\ "TestBeta" \in Keys(known[fgLast.gate])
    /\ "TestBeta" \notin Keys(enabled[fgLast.gate])
    /\ Enabled(fgLast.gate, "TestBeta")
    /\ known[fgLast.gate]["TestBeta"].InitFunc = "wait"
    /\ ~IsReady(fgLast.gate, "TestBeta")
    /\ <<fgLast.gate, "TestBeta">> \notin fgRan

\* Every InitFunc of the running StartInit that waits, waits on the channel of a feature
\* that this StartInit initialises, on the gate StartInit runs on.
WaitsInside ==
    \A k \in Keys(fgInit.task) :
        fgInit.fn[k] = "wait" =>
            /\ fgInit.gate = TestDataMutableFeatureGate
            /\ WaitsFor \in Keys(fgInit.task)

\* The goroutine of k can take its next step.
CanMove(k) ==
    \/ fgInit.task[k] \in {"init", "update"}
    \/ /\ fgInit.task[k] = "wait"
       /\ Subscribe(TestDataMutableFeatureGate, WaitsFor).channel \in fgChan

\* C38: StartInit terminates, also when an InitFunc waits on the Subscribe channel of
\* another feature that the same StartInit initialises: while StartInit runs, no
\* goroutine has panicked and some goroutine that has not called wg.Done() can take its
\* next step; each step brings a goroutine nearer to wg.Done(), so StartInit returns.
C38_StartInitTerminates ==
    (fgInit.pc = "running" /\ WaitsInside) =>
        /\ ~fgPanic
        /\ \/ \A k \in Keys(fgInit.task) : fgInit.task[k] = "done"
           \/ \E k \in Keys(fgInit.task) : CanMove(k)

\* StartInit has returned after an InitFunc had waited for the feature that another of
\* its goroutines made ready.
C38_WaiterWoken ==
    /\ fgLast.op = "StartInit"
    /\ <<fgLast.gate, "TestBeta">> \in fgRan
    /\ known[fgLast.gate]["TestBeta"].InitFunc = "wait"
    /\ IsReady(fgLast.gate, "TestBeta")
    /\ IsReady(fgLast.gate, WaitsFor)

Init == KAInit /\ LBIdle /\ RCIdle /\ STIdle /\ ExtIdle /\ AddIdle

Next == KANext

Spec == Init /\ [][Next]_vars

=============================================================================
